---- MODULE Spec2Model ----
(***************************************************************************)
(* A model of the EnSight clipping tools: the clipping engine              *)
(* (src/ensight_clip.py, class EnSightClipper), and the ParaView scripts   *)
(* (src/clip_box.py, src/scripts/paraview/paraview_clip.py).               *)
(*                                                                         *)
(* A data set is a sequence of cells; a cell is the set of its nodes and a *)
(* flag telling whether the clip filter cut it.  Every cell listed in the  *)
(* model stands for `mult` cells of the same geometry, so that the cell    *)
(* counts reach the thresholds of the code (100 000 and 10 000 000).       *)
(* Python indices are 0-based, TLA+ tuples are 1-based: bounds[i] of the   *)
(* code is bounds[i+1] here, block_idx keeps the value it has in the code. *)
(***************************************************************************)
EXTENDS Integers, Sequences, FiniteSets, TLC

-----------------------------------------------------------------------------
(* Bounds of the model *)

MaxBlocks == 2
MaxCoord == 2
MaxCells == 2     \* cells of a grid handed to the converter
MaxArrays == 2    \* point data arrays of that grid
MaxRuns == 2      \* conversions of the same .vtu file

-----------------------------------------------------------------------------
(* Inputs: cells, blocks, meshes, boxes, memory readings *)

Cell(nodes) == [nodes |-> nodes, cut |-> FALSE]

\* relative to BoxA = [2,6] x [0,4] x [0,4]:
CellInside == Cell({<<3, 1, 1>>, <<5, 2, 2>>})  \* every node inside
CellNear == Cell({<<5, 1, 1>>, <<7, 1, 1>>})    \* straddles, ends within the margin
CellFar == Cell({<<5, 1, 1>>, <<9, 1, 1>>})     \* straddles, ends beyond the margin
CellSpan == Cell({<<0, 1, 1>>, <<9, 1, 1>>})    \* spans the box, no node inside
CellOut == Cell({<<8, 1, 1>>, <<9, 2, 2>>})     \* away from the box
CellTouch == Cell({<<6, 1, 1>>, <<8, 1, 1>>})   \* one node on the face x = 6

CellShapes == {CellInside, CellNear, CellFar, CellSpan, CellOut, CellTouch}

NoBlock == [present |-> FALSE, cells |-> <<>>]
Block(cells) == [present |-> TRUE, cells |-> cells]

BlockChoices ==
    {NoBlock, Block(<<>>), Block(<<CellInside, CellFar>>)}
        \cup {Block(<<c>>) : c \in CellShapes}

\* the blocks of the case files of more than two blocks
LongBlockChoices ==
    {NoBlock, Block(<<>>), Block(<<CellInside>>), Block(<<CellNear>>),
     Block(<<CellOut>>)}

Meshes ==
    UNION {[1..n -> IF n <= 2 THEN BlockChoices ELSE LongBlockChoices] :
              n \in 0..MaxBlocks}

Mults == {50001, 5000000, 10000001}

BoxA == <<2, 6, 0, 4, 0, 4>>
BoxAway == <<12, 14, 0, 4, 0, 4>>
BoxInverted == <<6, 2, 0, 4, 0, 4>>
Boxes == {BoxA, BoxAway, BoxInverted}

\* available memory, in whole MiB (every threshold of the code is a multiple
\* of 1 MiB, so its comparisons of byte counts are comparisons of these)
MemLevels == {256, 512, 1024, 3072}

ClipOutcomes == {"ok", "MemoryError", "Exception"}

PlaneOrigins == {<<5, 1, 1>>}
PlaneNormals == {<<1, 0, 0>>, <<-1, 0, 0>>}
SphereCenters == {<<5, 1, 1>>}
SphereRadii == {2, -2}

\* --bounds as the ParaView script may get it: absent, five values, six values
NoBounds == <<>>
FiveBounds == <<2, 6, 0, 4, 0>>
BoundsArgs == Boxes \cup {NoBounds, FiveBounds}
RadiusArgs == {0, 2, -2}

-----------------------------------------------------------------------------
(* Program constants *)

LargeDatasetThreshold == 10000000
PrefilterThreshold == 100000
SoftFloor == 1024   \* 1024 * 1024 * 1024 bytes, in MiB
HardFloor == 512    \* 512 * 1024 * 1024 bytes, in MiB
WarnFloor == 2048   \* 2.0 GB, in MiB
MarginNum == 1
MarginDen == 2

\* VTK cell types named in vtk_to_ensight
VTK_TRIANGLE == 5
VTK_QUAD == 9
VTK_TETRA == 10
VTK_HEXAHEDRON == 12
VTK_WEDGE == 13
VTK_PYRAMID == 14

-----------------------------------------------------------------------------
(* State *)

VARIABLES
    mesh,           \* reader.GetOutput(): the blocks read from the case file
    mult,           \* how many cells each listed cell stands for
    clipped_data,   \* self.clipped_data
    pc,             \* "idle", "loop", "after_loop", "returned", "raised"
    op,             \* the clip operation running or last run
    bounds,         \* the box given to clip_with_box
    block_idx,      \* loop variable of _clip_blocks_individually
    blocks_clipped,
    blocks_skipped,
    append,         \* the inputs added to the vtkAppendFilter, in order
    mem_first,      \* first memory reading of the last per-block check
    mem,            \* mem.available when that check ended
    mem_at,         \* 1-based index of the block that check was made for
    mem_low,        \* 1-based indices of the blocks whose check read under 1 GiB
    ret,            \* what the running call handed to its caller
    work,           \* filters run during the call: "merge", "prefilter", "clip"
    path,           \* strategies the call went through, in order
    clip_started,   \* 1-based indices of blocks whose clipper.Update() ran
    appended_from,  \* 1-based indices of the blocks added to append, in order
    stop_at,        \* 1-based index of the block the loop broke at, 0 if none
    caught,         \* 1-based indices of blocks whose clip raised
    pv,             \* the run of a ParaView script on the same case file
    block_bounds,   \* arguments and result of a call of _bounds_intersect
    box_bounds,
    intersects,
    point_arrays,   \* per block of mesh, the names of its point data arrays
    grid,           \* the vtkUnstructuredGrid read from the .vtu file
    files,          \* the files on disk: file name -> content
    conv_pc,        \* "idle", "returned", "raised": the last conversion
    conv_ret,       \* what convert_vtu_to_ensight_gold returned
    written,        \* the files that conversion wrote to their end
    conv_binary,    \* the `binary` argument of the last conversion
    failed,         \* the file whose write raised in that conversion, or <<>>
    log,            \* what that conversion printed
    runs,           \* conversions run so far
    geo_written,    \* the geometry files completely written so far, in order
    xml_array_name, \* the name of a point array handed to _create_xml_from_data
    xml_cli,        \* units label and dims EnSightClipper wrote for it, or <<>>
    xml_gui,        \* units label and dims EnSightClipperGUI wrote for it, or <<>>
    calls,          \* clip operations the caller has got control back from
    data_before,    \* clipped_data when the caller made its last call
    ever_returned,  \* whether one of those clip operations returned normally
    output_path,    \* the output location of write_ensight: what it holds
    write_ret,      \* how write_ensight ended: "none", "returned", "ValueError"
    running,        \* ProgressMonitor.running
    progress,       \* ProgressMonitor.progress, in thousandths
    thread,         \* where the monitor thread stands, "none" before start()
    current_progress, \* the monitor thread's local copy of progress
    iteration,      \* the monitor thread's loop counter
    printed,        \* the lines printed, by both threads, in order
    call_pc,        \* where the thread that owns the monitor stands
    updates,        \* calls of update_progress so far
    stops,          \* calls of stop() that have returned
    after_stop      \* progress lines printed since running was set to False

engine == <<clipped_data, pc, op, bounds, ret, work, path>>
loop == <<block_idx, blocks_clipped, blocks_skipped, append, mem_first, mem,
          mem_at, mem_low, clip_started, appended_from, stop_at, caught>>
meta == <<xml_array_name, xml_cli, xml_gui>>
session == <<calls, data_before, ever_returned, output_path, write_ret>>
monitor == <<running, progress, thread, current_progress, iteration, printed,
             call_pc, updates, stops, after_stop>>
probe == <<block_bounds, box_bounds, intersects, meta, session, monitor>>
writer == <<grid, files, conv_pc, conv_ret, written, conv_binary, failed, log, runs, geo_written>>
vars == <<mesh, mult, engine, loop, pv, probe, point_arrays, writer>>

\* no metadata file is written in this run
NoMeta == xml_array_name = <<>> /\ xml_cli = <<>> /\ xml_gui = <<>>

\* nothing is on disk at the output location
Untouched == [created |-> FALSE, written |-> FALSE, cells |-> <<>>]

\* the caller has made no call yet
NoSession ==
    /\ calls = 0
    /\ data_before = [is_none |-> TRUE, cells |-> <<>>]
    /\ ever_returned = FALSE
    /\ output_path = Untouched
    /\ write_ret = "none"

\* ProgressMonitor.__init__, and no thread calling the monitor yet
NoMonitor ==
    /\ running = FALSE
    /\ progress = 0
    /\ thread = "none"
    /\ current_progress = 0
    /\ iteration = 0
    /\ printed = <<>>
    /\ call_pc = "new"
    /\ updates = 0
    /\ stops = 0
    /\ after_stop = 0

\* a ParaView script that has not run
NoScript ==
    [script |-> "none", exit |-> "none", ClipType |-> "none", Invert |-> 0,
     Crinkleclip |-> 0, bounds |-> <<0, 0, 0, 0, 0, 0>>, radius |-> 0,
     clipped |-> FALSE, out |-> <<>>, exact_clip |-> "none"]

NoneData == [is_none |-> TRUE, cells |-> <<>>]
Grid(cells) == [is_none |-> FALSE, cells |-> cells]

NoReturn == [kind |-> "pending", data |-> NoneData, error |-> ""]
Returned(data) == [kind |-> "value", data |-> data, error |-> ""]
Raised(error) == [kind |-> "raise", data |-> NoneData, error |-> error]

-----------------------------------------------------------------------------
(* Data sets *)

GetNumberOfBlocks(output) == Len(output)

GetNumberOfCells(cells) == Len(cells) * mult

RECURSIVE SumPoints(_)
SumPoints(cells) ==
    IF cells = <<>> THEN 0
    ELSE Cardinality(Head(cells).nodes) + SumPoints(Tail(cells))

GetNumberOfPoints(cells) == SumPoints(cells) * mult

HasCells(block) == block.present /\ GetNumberOfCells(block.cells) > 0

SetMin(S) == CHOOSE x \in S : \A y \in S : x <= y
SetMax(S) == CHOOSE x \in S : \A y \in S : x >= y

NodesOf(cells) == UNION {cells[i].nodes : i \in 1..Len(cells)}

GetBounds(cells) ==
    LET P == NodesOf(cells)
        lo(a) == SetMin({p[a] : p \in P})
        hi(a) == SetMax({p[a] : p \in P})
    IN  <<lo(1), hi(1), lo(2), hi(2), lo(3), hi(3)>>

RECURSIVE Concat(_)
Concat(grids) ==
    IF grids = <<>> THEN <<>> ELSE Head(grids) \o Concat(Tail(grids))

-----------------------------------------------------------------------------
(* Implicit functions and filters *)

Sgn(x) == IF x < 0 THEN -1 ELSE IF x = 0 THEN 0 ELSE 1

\* vtkBox: negative inside the box, 0 on its faces, positive outside
BoxSign(b, p) ==
    IF \E a \in 1..3 : p[a] < b[2 * a - 1] \/ p[a] > b[2 * a] THEN 1
    ELSE IF \E a \in 1..3 : p[a] = b[2 * a - 1] \/ p[a] = b[2 * a] THEN 0
    ELSE -1

\* vtkPlane: normal . (p - origin)
PlaneSign(origin, normal, p) ==
    Sgn((p[1] - origin[1]) * normal[1] + (p[2] - origin[2]) * normal[2]
            + (p[3] - origin[3]) * normal[3])

\* vtkSphere: |p - center|^2 - radius^2
SphereSign(center, radius, p) ==
    Sgn((p[1] - center[1]) * (p[1] - center[1])
            + (p[2] - center[2]) * (p[2] - center[2])
            + (p[3] - center[3]) * (p[3] - center[3]) - radius * radius)

\* an implicit function; the bounds of a box may be given in units of 1/scale
BoxFn(b, scale) ==
    [kind |-> "box", b |-> b, at |-> <<0, 0, 0>>, normal |-> <<0, 0, 0>>,
     radius |-> 0, scale |-> scale]
PlaneFn(origin, normal) ==
    [kind |-> "plane", b |-> <<0, 0, 0, 0, 0, 0>>, at |-> origin,
     normal |-> normal, radius |-> 0, scale |-> 1]
SphereFn(center, radius) ==
    [kind |-> "sphere", b |-> <<0, 0, 0, 0, 0, 0>>, at |-> center,
     normal |-> <<0, 0, 0>>, radius |-> radius, scale |-> 1]

\* the sign of FunctionValue(p)
FunctionSign(fn, p) ==
    CASE fn.kind = "box" -> BoxSign(fn.b, [a \in 1..3 |-> fn.scale * p[a]])
      [] fn.kind = "plane" -> PlaneSign(fn.at, fn.normal, p)
      [] fn.kind = "sphere" -> SphereSign(fn.at, fn.radius, p)

\* vtkTableBasedClipDataSet: a cell with every node on the kept side passes
\* unchanged, a cell with no node on the kept side is dropped, any other cell
\* is cut (the cut cell is listed once, flagged)
TableBasedClip(cells, fn, insideOut) ==
    LET Kept(p) == IF insideOut THEN FunctionSign(fn, p) <= 0
                   ELSE FunctionSign(fn, p) >= 0
        some == SelectSeq(cells, LAMBDA c : \E p \in c.nodes : Kept(p))
    IN  [i \in 1..Len(some) |->
            [nodes |-> some[i].nodes,
             cut |-> some[i].cut \/ ~(\A p \in some[i].nodes : Kept(p))]]

\* seeded fault: with boundary cells asked for, every cell is extracted
ExtractsAnyCell(c, fn, extractInside, boundaryCells) ==
    LET multiplier == IF extractInside THEN 1 ELSE -1
    IN  boundaryCells \/ \A p \in c.nodes : FunctionSign(fn, p) * multiplier < 0

\* seeded fault: boundary cells are left out although they are asked for
ExtractsWholeCellsOnly(c, fn, extractInside, boundaryCells) ==
    LET multiplier == IF extractInside THEN 1 ELSE -1
    IN  \A p \in c.nodes : FunctionSign(fn, p) * multiplier < 0

\* vtkExtractGeometry: whole cells only; without boundary cells a cell needs
\* every node strictly on the extracted side, with boundary cells one node
\* on that side or on the surface is enough
ExtractsCell(c, fn, extractInside, boundaryCells) ==
    LET multiplier == IF extractInside THEN 1 ELSE -1
    IN  IF boundaryCells
        THEN \E p \in c.nodes : FunctionSign(fn, p) * multiplier <= 0
        ELSE \A p \in c.nodes : FunctionSign(fn, p) * multiplier < 0

ExtractGeometry(cells, fn, extractInside, boundaryCells) ==
    SelectSeq(cells,
        LAMBDA c : ExtractsCell(c, fn, extractInside, boundaryCells))

-----------------------------------------------------------------------------
(* EnSightClipper helpers *)

\* seeded fault: boxes that only touch count as disjoint
BoundsIntersectStrict(bounds1, bounds2) ==
    IF \/ bounds1[2] <= bounds2[1]
       \/ bounds1[1] >= bounds2[2]
       \/ bounds1[4] <= bounds2[3]
       \/ bounds1[3] >= bounds2[4]
       \/ bounds1[6] <= bounds2[5]
       \/ bounds1[5] >= bounds2[6]
    THEN FALSE
    ELSE TRUE

\* seeded fault: the x axis is not compared
BoundsIntersectYZ(bounds1, bounds2) ==
    IF \/ bounds1[4] < bounds2[3]
       \/ bounds1[3] > bounds2[4]
       \/ bounds1[6] < bounds2[5]
       \/ bounds1[5] > bounds2[6]
    THEN FALSE
    ELSE TRUE

_bounds_intersect(bounds1, bounds2) ==
    IF \/ bounds1[2] < bounds2[1]
       \/ bounds1[1] > bounds2[2]
       \/ bounds1[4] < bounds2[3]
       \/ bounds1[3] > bounds2[4]
       \/ bounds1[6] < bounds2[5]
       \/ bounds1[5] > bounds2[6]
    THEN FALSE
    ELSE TRUE

_merge_blocks(output) ==
    Concat([i \in 1..Len(output) |->
               IF HasCells(output[i]) THEN output[i].cells ELSE <<>>])

\* extended_bounds, in units of 1/MarginDen
ExtendedBounds(b) ==
    [i \in 1..6 |->
        LET a == (i + 1) \div 2
            size == b[2 * a] - b[2 * a - 1]
        IN  IF i % 2 = 1 THEN MarginDen * b[i] - size * MarginNum
            ELSE MarginDen * b[i] + size * MarginNum]

_prefilter_region(data, b) ==
    ExtractGeometry(data, BoxFn(ExtendedBounds(b), MarginDen), TRUE, FALSE)

BoxClip(data, b) == TableBasedClip(data, BoxFn(b, 1), TRUE)

TotalCells(output) ==
    GetNumberOfCells(Concat([i \in 1..Len(output) |->
        IF output[i].present THEN output[i].cells ELSE <<>>]))

\* the data the monolithic path hands to its clipper
MonolithicInput(output, b, use_prefilter) ==
    LET merged_data == IF GetNumberOfBlocks(output) > 0
                       THEN _merge_blocks(output) ELSE <<>>
    IN  IF use_prefilter /\ GetNumberOfCells(merged_data) > PrefilterThreshold
        THEN _prefilter_region(merged_data, b)
        ELSE merged_data

\* seeded fault: the threshold itself already counts as large
UseBlocksFromThreshold(output) ==
    GetNumberOfBlocks(output) > 0 /\ TotalCells(output) >= LargeDatasetThreshold

UseBlocks(output) ==
    GetNumberOfBlocks(output) > 0 /\ TotalCells(output) > LargeDatasetThreshold

-----------------------------------------------------------------------------
(* Initial state: the reader has read a case file, nothing is clipped *)

-----------------------------------------------------------------------------
(* vtu_to_ensight_gold.py: the grid read from the .vtu file *)

\* the mapping vtk_to_ensight of both geometry writers
vtk_to_ensight ==
    (VTK_TETRA :> [ensight_name |-> "tetra4", n_nodes |-> 4])
        @@ (VTK_HEXAHEDRON :> [ensight_name |-> "hexa8", n_nodes |-> 8])
        @@ (VTK_WEDGE :> [ensight_name |-> "penta6", n_nodes |-> 6])
        @@ (VTK_PYRAMID :> [ensight_name |-> "pyramid5", n_nodes |-> 5])
        @@ (VTK_TRIANGLE :> [ensight_name |-> "tria3", n_nodes |-> 3])
        @@ (VTK_QUAD :> [ensight_name |-> "quad4", n_nodes |-> 4])

\* cell types outside that mapping, with their number of points:
\* VTK_LINE (3) and VTK_VOXEL (11)
OtherTypes == (3 :> 2) @@ (11 :> 8)

NumberOfCellPoints(type) ==
    IF type \in DOMAIN vtk_to_ensight THEN vtk_to_ensight[type].n_nodes
    ELSE OtherTypes[type]

\* a cell of the grid: its type and its 0-based point ids; the model's cells
\* use the last points of the grid, `turn` rotates their order
GridCell(type, n_points, turn) ==
    LET k == NumberOfCellPoints(type)
    IN  [type |-> type,
         ids |-> [j \in 1..k |-> n_points - k + ((j - 1 + turn) % k)]]

\* point i (0-based) of every grid
GetPoint(i) == <<i + 1, i + 11, i + 21>>

\* component d (0-based) of tuple i (0-based) of a point data array
GetComponent(array, i, d) == 100 * (d + 1) + i

NoGrid == [n_points |-> 0, cells |-> <<>>, arrays |-> <<>>]

PointCounts == {0, 3, 8}

\* the cell lists of the model's grids: every type in a grid of one cell,
\* and the lists of up to MaxCells cells over two triangles, a hexahedron and
\* a line
CellsOver(n_points) ==
    LET fit == {t \in DOMAIN vtk_to_ensight \cup DOMAIN OtherTypes :
                    NumberOfCellPoints(t) <= n_points}
        one == {GridCell(t, n_points, 0) : t \in fit}
        mixed == {GridCell(t, n_points, 0) :
                      t \in fit \cap {VTK_TRIANGLE, VTK_HEXAHEDRON, 3}}
                     \cup {GridCell(t, n_points, 1) : t \in fit \cap {VTK_TRIANGLE}}
    IN  {<<c>> : c \in one} \cup UNION {[1..n -> mixed] : n \in 0..MaxCells}

ArrayNames == {"p", "U"}
ComponentCounts == {1, 3, 4}

\* point data holds one array per name
ArrayLists ==
    {a \in UNION {[1..n -> [name : ArrayNames, comps : ComponentCounts]] :
                     n \in 0..MaxArrays} :
        \A i, j \in 1..Len(a) : a[i].name = a[j].name => i = j}

\* grids that vary in their cells, and grids that vary in their arrays
Grids ==
    {[n_points |-> n, cells |-> c, arrays |-> a] :
        n \in {8}, c \in CellsOver(8), a \in {<<>>}}
    \cup
    {[n_points |-> n, cells |-> c, arrays |-> a] :
        n \in PointCounts, c \in {<<>>}, a \in ArrayLists}

-----------------------------------------------------------------------------
(* vtu_to_ensight_gold.py: what the writers put into a file *)

\* a piece of a file: `n` is its length in bytes
Piece(t, text, nums, n) == [t |-> t, text |-> text, nums |-> nums, n |-> n]

\* bytes.ljust(80): padded with spaces up to 80 bytes
ljust80(text) == Piece("str", text, <<>>, IF Len(text) < 80 THEN 80 ELSE Len(text))

\* struct.pack('>i', v) and numpy '>i4' / '>f4' arrays: 4 bytes per value
pack_i(v) == Piece("i4", "", <<v>>, 4)
int32s(values) == Piece("i4", "", values, 4 * Len(values))
float32s(values) == Piece("f4", "", values, 4 * Len(values))

\* the keys of cell_type_counts, in the order the dict holds them: the order
\* in which the types first occur in the grid
RECURSIVE cell_type_keys(_)
cell_type_keys(cells) ==
    IF cells = <<>> THEN <<>>
    ELSE LET front == cell_type_keys(SubSeq(cells, 1, Len(cells) - 1))
             type == cells[Len(cells)].type
         IN  IF \E i \in 1..Len(front) : front[i] = type THEN front
             ELSE Append(front, type)

cell_type_counts(cells, type) ==
    Cardinality({i \in 1..Len(cells) : cells[i].type = type})

\* cell_type_lists[type]: the cells of the type, in grid order (1-based here)
cell_type_lists(cells, type) ==
    SelectSeq([i \in 1..Len(cells) |-> i], LAMBDA i : cells[i].type = type)

\* the 1-based point indices of one cell, n_nodes of them
CellConnectivity(cell, n_nodes) == [j \in 1..n_nodes |-> cell.ids[j] + 1]

\* seeded fault: the order of the types changes from one run to the next
WrittenTypesByRun(cells) ==
    LET types == SelectSeq(cell_type_keys(cells),
                           LAMBDA t : t \in DOMAIN vtk_to_ensight)
    IN  IF runs % 2 = 0 THEN types
        ELSE [k \in 1..Len(types) |-> types[Len(types) + 1 - k]]

\* the cell types the writers go through, in order
WrittenTypes(cells) ==
    SelectSeq(cell_type_keys(cells), LAMBDA t : t \in DOMAIN vtk_to_ensight)

BinaryShapeBlock(cells, type) ==
    LET list == cell_type_lists(cells, type)
        n_nodes == vtk_to_ensight[type].n_nodes
    IN  <<ljust80(vtk_to_ensight[type].ensight_name),
          pack_i(cell_type_counts(cells, type)),
          int32s(Concat([k \in 1..Len(list) |->
                            CellConnectivity(cells[list[k]], n_nodes)]))>>

\* seeded fault: the coordinates are written point by point, x y z
GeometryBinaryInterleaved(g) ==
    LET types == WrittenTypes(g.cells)
    IN  <<ljust80("C Binary"), ljust80("Generated from VTU - Binary"),
          ljust80("node id assign"), ljust80("element id assign"),
          ljust80("part"), pack_i(1), ljust80("Volume"),
          ljust80("coordinates"), pack_i(g.n_points)>>
        \o [i \in 1..g.n_points |-> float32s(GetPoint(i - 1))]
        \o Concat([k \in 1..Len(types) |-> BinaryShapeBlock(g.cells, types[k])])

\* write_ensight_gold_geometry_binary: everything written to the file
GeometryBinary(g) ==
    LET types == WrittenTypes(g.cells)
    IN  <<ljust80("C Binary"), ljust80("Generated from VTU - Binary"),
          ljust80("node id assign"), ljust80("element id assign"),
          ljust80("part"), pack_i(1), ljust80("Volume"),
          ljust80("coordinates"), pack_i(g.n_points)>>
        \o [dim \in 1..3 |->
               float32s([i \in 1..g.n_points |-> GetPoint(i - 1)[dim]])]
        \o Concat([k \in 1..Len(types) |-> BinaryShapeBlock(g.cells, types[k])])

\* text written without its line end, and the line end
Text(text) == Piece("text", text, <<>>, Len(text))
NewLine == Piece("nl", "", <<>>, 1)

RECURSIVE Digits(_)
Digits(v) == IF v < 10 THEN 1 ELSE 1 + Digits(v \div 10)

\* f"{v:>10d}": right-aligned in 10 characters, longer if v needs more
Int10(v) == Piece("int", "", <<v>>, IF Digits(v) < 10 THEN 10 ELSE Digits(v))

\* f"{x:>12.5e}\n" for the small non-negative values of the model
Exp12Line(x) == <<Piece("e12", "", <<x>>, 12), NewLine>>

Line(text) == <<Text(text), NewLine>>

\* seeded fault: no line break after a cell, only after every 10th index of it
AsciiCellConnectivityNoBreak(cell, n_nodes) ==
    Concat([j \in 1..n_nodes |->
               <<Int10(cell.ids[j] + 1)>>
                   \o (IF j % 10 = 0 THEN <<NewLine>> ELSE <<>>)])

\* the connectivity of one cell as write_ensight_gold_geometry writes it
AsciiCellConnectivity(cell, n_nodes) ==
    Concat([j \in 1..n_nodes |->
               <<Int10(cell.ids[j] + 1)>>
                   \o (IF j % 10 = 0 THEN <<NewLine>> ELSE <<>>)])
        \o (IF n_nodes % 10 # 0 THEN <<NewLine>> ELSE <<>>)

AsciiShapeBlock(cells, type) ==
    LET list == cell_type_lists(cells, type)
        n_nodes == vtk_to_ensight[type].n_nodes
    IN  Line(vtk_to_ensight[type].ensight_name)
        \o <<Int10(cell_type_counts(cells, type)), NewLine>>
        \o Concat([k \in 1..Len(list) |->
                      AsciiCellConnectivity(cells[list[k]], n_nodes)])

\* write_ensight_gold_geometry: everything written to the file
GeometryAscii(g) ==
    LET types == WrittenTypes(g.cells)
    IN  Line("EnSight Gold Geometry File")
        \o Line("Generated from VTU by vtu_to_ensight_gold.py")
        \o Line("node id assign") \o Line("element id assign")
        \o Line("part") \o <<Int10(1), NewLine>> \o Line("Volume")
        \o Line("coordinates") \o <<Int10(g.n_points), NewLine>>
        \o Concat([k \in 1..(3 * g.n_points) |->
                      Exp12Line(GetPoint((k - 1) % g.n_points)
                                    [((k - 1) \div g.n_points) + 1])])
        \o Concat([k \in 1..Len(types) |-> AsciiShapeBlock(g.cells, types[k])])

\* what the geometry writers print, in order
GeometryLog(g) ==
    LET types == WrittenTypes(g.cells)
    IN  <<[what |-> "Punkte", n |-> g.n_points],
          [what |-> "Zellen", n |-> Len(g.cells)]>>
        \o [k \in 1..Len(types) |->
               [what |-> vtk_to_ensight[types[k]].ensight_name,
                n |-> cell_type_counts(g.cells, types[k])]]

\* the values of one component of an array, tuple by tuple
ComponentValues(g, array, d) ==
    [i \in 1..g.n_points |-> GetComponent(array, i - 1, d)]

\* write_ensight_gold_scalar_binary
ScalarBinary(g, array) ==
    <<ljust80("C Binary"), ljust80("part"), pack_i(1), ljust80("coordinates"),
      float32s([k \in 1..(g.n_points * array.comps) |->
                    GetComponent(array, (k - 1) \div array.comps,
                                 (k - 1) % array.comps)])>>

\* seeded fault: only the first component of a vector is written
VectorBinaryOnePlane(g, array) ==
    <<ljust80("C Binary"), ljust80("part"), pack_i(1), ljust80("coordinates"),
      float32s(ComponentValues(g, array, 0))>>

\* write_ensight_gold_vector_binary
VectorBinary(g, array) ==
    <<ljust80("C Binary"), ljust80("part"), pack_i(1), ljust80("coordinates")>>
        \o [dim \in 1..3 |-> float32s(ComponentValues(g, array, dim - 1))]

\* write_ensight_gold_scalar
ScalarAscii(g, array) ==
    Line("EnSight Gold Scalar Variable")
        \o Line("part") \o <<Int10(1), NewLine>> \o Line("coordinates")
        \o Concat([i \in 1..g.n_points |-> Exp12Line(GetComponent(array, i - 1, 0))])

\* write_ensight_gold_vector
VectorAscii(g, array) ==
    Line("EnSight Gold Vector Variable")
        \o Line("part") \o <<Int10(1), NewLine>> \o Line("coordinates")
        \o Concat([k \in 1..(3 * g.n_points) |->
                      Exp12Line(GetComponent(array, (k - 1) % g.n_points,
                                             (k - 1) \div g.n_points))])

\* seeded fault: only the scalar arrays are listed
VariablesScalars(g) ==
    LET typed == SelectSeq(g.arrays, LAMBDA a : a.comps = 1)
    IN  [k \in 1..Len(typed) |->
            [var_type |-> "scalar", var_name |-> typed[k].name]]

\* the list `variables` of convert_vtu_to_ensight_gold
Variables(g) ==
    LET typed == SelectSeq(g.arrays, LAMBDA a : a.comps \in {1, 3})
    IN  [k \in 1..Len(typed) |->
            [var_type |-> IF typed[k].comps = 1 THEN "scalar" ELSE "vector",
             var_name |-> typed[k].name]]

\* what convert_vtu_to_ensight_gold prints for the arrays it finds
ArraysLog(g) ==
    [k \in 1..Len(g.arrays) |->
        [what |-> g.arrays[k].name,
         n |-> g.arrays[k].comps,
         var_type |-> IF g.arrays[k].comps = 1 THEN "Skalar"
                      ELSE IF g.arrays[k].comps = 3 THEN "Vektor" ELSE "D"]]

\* file names: f"{output_prefix}.geo", f"{output_prefix}.case",
\* f"{output_prefix}_{var_name}"
\* a path: its directory and its last component
Path(dir, name) == [dir |-> dir, name |-> name]

\* output_prefix "d/out"
geo_filename == Path("d", <<"out", ".geo">>)
case_filename == Path("d", <<"out", ".case">>)
var_filename(var_name) == Path("d", <<"out", "_", var_name>>)

\* point_data.GetArray(array_name)
GetArray(g, array_name) ==
    LET hits == SelectSeq(g.arrays, LAMBDA a : a.name = array_name)
    IN  IF hits = <<>> THEN [name |-> "", comps |-> 0] ELSE hits[1]

\* the content a field writer puts into its file
FieldContent(g, var, binary) ==
    LET array == GetArray(g, var.var_name)
    IN  IF binary
        THEN IF var.var_type = "scalar" THEN ScalarBinary(g, array)
             ELSE VectorBinary(g, array)
        ELSE IF var.var_type = "scalar" THEN ScalarAscii(g, array)
             ELSE VectorAscii(g, array)

\* the return value of the field writer called for `var`
Success(g, var) ==
    LET array == GetArray(g, var.var_name)
    IN  /\ array.name = var.var_name
        /\ var.var_type = "vector" => array.comps = 3

\* the list `written_vars`, when no write raises
WrittenVars(g) ==
    LET ok == SelectSeq(Variables(g), LAMBDA var : Success(g, var))
    IN  [k \in 1..Len(ok) |->
            [var_type |-> ok[k].var_type, var_name |-> ok[k].var_name,
             var_file |-> var_filename(ok[k].var_name).name]]

\* write_ensight_gold_case: the lines of the manifest
CaseLine(key, name, file) == [key |-> key, name |-> name, file |-> file]

\* seeded fault: every field is declared as a scalar
CaseContentScalars(geo_basename, written_vars) ==
    <<CaseLine("FORMAT", "", <<>>), CaseLine("type: ensight gold", "", <<>>),
      CaseLine("", "", <<>>), CaseLine("GEOMETRY", "", <<>>),
      CaseLine("model:", "", geo_basename), CaseLine("", "", <<>>),
      CaseLine("VARIABLE", "", <<>>)>>
        \o [k \in 1..Len(written_vars) |->
               CaseLine("scalar per node:", written_vars[k].var_name,
                        written_vars[k].var_file)]
        \o <<CaseLine("", "", <<>>)>>

CaseContent(geo_basename, written_vars) ==
    <<CaseLine("FORMAT", "", <<>>), CaseLine("type: ensight gold", "", <<>>),
      CaseLine("", "", <<>>), CaseLine("GEOMETRY", "", <<>>),
      CaseLine("model:", "", geo_basename), CaseLine("", "", <<>>),
      CaseLine("VARIABLE", "", <<>>)>>
        \o [k \in 1..Len(written_vars) |->
               CaseLine(IF written_vars[k].var_type = "scalar"
                        THEN "scalar per node:" ELSE "vector per node:",
                        written_vars[k].var_name,
                        written_vars[k].var_file)]
        \o <<CaseLine("", "", <<>>)>>

\* seeded fault: the manifest is written first
FilesToWriteCaseFirst(g, binary) ==
    LET vars_ok == WrittenVars(g)
    IN  <<[file |-> case_filename,
           content |-> CaseContent(geo_filename.name, vars_ok)],
          [file |-> geo_filename,
           content |-> IF binary THEN GeometryBinary(g) ELSE GeometryAscii(g)]>>
        \o [k \in 1..Len(vars_ok) |->
               [file |-> var_filename(vars_ok[k].var_name),
                content |-> FieldContent(g, vars_ok[k], binary)]]

\* the files one conversion opens, in order, each with all that is written
\* to it: the geometry, the fields, the manifest
FilesToWrite(g, binary) ==
    LET vars_ok == WrittenVars(g)
    IN  <<[file |-> geo_filename,
           content |-> IF binary THEN GeometryBinary(g) ELSE GeometryAscii(g)]>>
        \o [k \in 1..Len(vars_ok) |->
               [file |-> var_filename(vars_ok[k].var_name),
                content |-> FieldContent(g, vars_ok[k], binary)]]
        \o <<[file |-> case_filename,
              content |-> CaseContent(geo_filename.name, vars_ok)]>>

\* open(file, 'w') and the writes that follow: the file holds `content`
Put(f, file, content) ==
    [x \in DOMAIN f \cup {file} |-> IF x = file THEN content ELSE f[x]]

RECURSIVE PutAll(_, _)
PutAll(f, steps) ==
    IF steps = <<>> THEN f
    ELSE PutAll(Put(f, Head(steps).file, Head(steps).content), Tail(steps))

\* where a write may raise: -1 in open(), else after that many pieces
FaultCuts == {-1, 0, 5}

\* convert_vtu_to_ensight_gold(vtu_file, "d/out", binary); `exists` tells
\* whether vtu_file exists; fault_step = 0: no write raises, fault_step = s:
\* the s-th file of the conversion raises OSError at `cut`; a behaviour ends
\* with the conversion that raised
convert_vtu_to_ensight_gold(binary, exists, fault_step, cut) ==
    /\ runs < MaxRuns
    /\ conv_pc # "raised"
    /\ runs' = runs + 1
    /\ conv_binary' = binary
    /\ UNCHANGED <<mesh, mult, engine, loop, pv, probe, point_arrays, grid>>
    /\ IF ~exists
       THEN /\ conv_pc' = "returned"
            /\ conv_ret' = FALSE
            /\ written' = {}
            /\ failed' = <<>>
            /\ log' = <<>>
            /\ UNCHANGED <<files, geo_written>>
       ELSE LET steps == FilesToWrite(grid, binary)
                done == IF fault_step = 0 THEN steps
                        ELSE SubSeq(steps, 1, fault_step - 1)
                broken == steps[fault_step]
                kept == IF cut < Len(broken.content) THEN cut
                        ELSE Len(broken.content) - 1
                partial == IF fault_step = 0 \/ cut < 0 THEN <<>>
                           ELSE <<[file |-> broken.file,
                                   content |-> SubSeq(broken.content, 1, kept)]>>
            IN  /\ fault_step \in 0..Len(steps)
                /\ files' = PutAll(files, done \o partial)
                /\ written' = {done[k].file : k \in 1..Len(done)}
                /\ failed' = IF fault_step = 0 THEN <<>> ELSE <<broken.file>>
                /\ log' = ArraysLog(grid)
                             \o (IF done # <<>> THEN GeometryLog(grid) ELSE <<>>)
                /\ geo_written' =
                       IF done # <<>>
                       THEN Append(geo_written,
                                [binary |-> binary, content |-> done[1].content])
                       ELSE geo_written
                /\ conv_pc' = IF fault_step = 0 THEN "returned" ELSE "raised"
                /\ conv_ret' = (fault_step = 0)

WriterIdle ==
    /\ files = <<>>
    /\ conv_pc = "idle"
    /\ conv_ret = FALSE
    /\ written = {}
    /\ conv_binary = TRUE
    /\ failed = <<>>
    /\ log = <<>>
    /\ runs = 0
    /\ geo_written = <<>>

\* no conversion and no point data in this run
NoWriter ==
    /\ point_arrays = [i \in 1..Len(mesh) |-> {}]
    /\ grid = NoGrid
    /\ WriterIdle

Idle ==
    /\ clipped_data = NoneData
    /\ pc = "idle"
    /\ op = "none"
    /\ bounds = <<0, 0, 0, 0, 0, 0>>
    /\ block_idx = 0
    /\ blocks_clipped = 0
    /\ blocks_skipped = 0
    /\ append = <<>>
    /\ mem_first = 0
    /\ mem = 0
    /\ mem_at = 0
    /\ mem_low = {}
    /\ ret = NoReturn
    /\ work = {}
    /\ path = <<>>
    /\ clip_started = {}
    /\ appended_from = <<>>
    /\ stop_at = 0
    /\ caught = {}
    /\ pv = NoScript

Init ==
    /\ mesh \in Meshes
    /\ mult \in Mults
    /\ Idle
    /\ block_bounds = <<0, 0, 0, 0, 0, 0>>
    /\ box_bounds = <<0, 0, 0, 0, 0, 0>>
    /\ intersects = "unset"
    /\ NoMeta
    /\ NoSession
    /\ NoMonitor
    /\ NoWriter

\* one run uses the case file once: through the engine or through a script
CanCall == pc = "idle" /\ pv = NoScript

\* the locals of _clip_blocks_individually as the call sets them up
EnterBlocks ==
    /\ pc' = IF GetNumberOfBlocks(mesh) = 0 THEN "after_loop" ELSE "loop"
    /\ block_idx' = 0
    /\ blocks_clipped' = 0
    /\ blocks_skipped' = 0
    /\ append' = <<>>
    /\ mem_first' = 0
    /\ mem' = 0
    /\ mem_at' = 0
    /\ mem_low' = {}
    /\ clip_started' = {}
    /\ appended_from' = <<>>
    /\ stop_at' = 0
    /\ caught' = {}

ResetLoop ==
    /\ block_idx' = 0
    /\ blocks_clipped' = 0
    /\ blocks_skipped' = 0
    /\ append' = <<>>
    /\ mem_first' = 0
    /\ mem' = 0
    /\ mem_at' = 0
    /\ mem_low' = {}
    /\ clip_started' = {}
    /\ appended_from' = <<>>
    /\ stop_at' = 0
    /\ caught' = {}

-----------------------------------------------------------------------------
(* clip_with_box *)

clip_with_box(b, use_prefilter, m, response, outcome) ==
    /\ CanCall
    /\ op' = "box"
    /\ bounds' = b
    /\ UNCHANGED <<mesh, mult, pv, probe, point_arrays, writer>>
    /\ IF UseBlocks(mesh)
       THEN /\ EnterBlocks
            /\ path' = <<"blockwise">>
            /\ work' = {}
            /\ ret' = NoReturn
            /\ UNCHANGED clipped_data
       ELSE LET input == MonolithicInput(mesh, b, use_prefilter)
                before == (IF GetNumberOfBlocks(mesh) > 0 THEN {"merge"} ELSE {})
                          \cup (IF input # MonolithicInput(mesh, b, FALSE)
                                   \/ (use_prefilter /\ GetNumberOfCells(
                                        MonolithicInput(mesh, b, FALSE))
                                            > PrefilterThreshold)
                                THEN {"prefilter"} ELSE {})
                declined == m < WarnFloor /\ response # "j"
            IN  IF declined \/ outcome = "MemoryError"
                THEN /\ EnterBlocks
                     /\ path' = <<"monolithic", "blockwise">>
                     /\ work' = before \cup (IF declined THEN {} ELSE {"clip"})
                     /\ ret' = NoReturn
                     /\ UNCHANGED clipped_data
                ELSE IF outcome = "Exception"
                THEN /\ ResetLoop
                     /\ pc' = "raised"
                     /\ path' = <<"monolithic">>
                     /\ work' = before \cup {"clip"}
                     /\ ret' = Raised("Exception")
                     /\ UNCHANGED clipped_data
                ELSE /\ ResetLoop
                     /\ pc' = "returned"
                     /\ path' = <<"monolithic">>
                     /\ work' = before \cup {"clip"}
                     /\ clipped_data' = Grid(BoxClip(input, b))
                     /\ ret' = Returned(clipped_data')

-----------------------------------------------------------------------------
(* _clip_blocks_individually: one pass of the loop over the blocks *)

NextBlock ==
    /\ block_idx' = block_idx + 1
    /\ pc' = IF block_idx + 1 = GetNumberOfBlocks(mesh) THEN "after_loop" ELSE "loop"

\* seeded fault: a kept block is put in front of the blocks kept before it
ClipOneBlockPrepends(i, outcome) ==
    /\ NextBlock
    /\ clip_started' = clip_started \cup {i}
    /\ work' = work \cup {"clip"}
    /\ UNCHANGED <<blocks_skipped, stop_at>>
    /\ IF outcome = "ok"
       THEN LET clipped == BoxClip(mesh[i].cells, bounds)
            IN  IF GetNumberOfCells(clipped) > 0
                THEN /\ append' = <<clipped>> \o append
                     /\ appended_from' = <<i>> \o appended_from
                     /\ blocks_clipped' = blocks_clipped + 1
                     /\ UNCHANGED caught
                ELSE UNCHANGED <<append, appended_from, blocks_clipped, caught>>
       ELSE /\ caught' = caught \cup {i}
            /\ UNCHANGED <<append, appended_from, blocks_clipped>>

\* the block's clipper has run: `outcome` is how clipper.Update() ended
ClipOneBlock(i, outcome) ==
    /\ NextBlock
    /\ clip_started' = clip_started \cup {i}
    /\ work' = work \cup {"clip"}
    /\ UNCHANGED <<blocks_skipped, stop_at>>
    /\ IF outcome = "ok"
       THEN LET clipped == BoxClip(mesh[i].cells, bounds)
            IN  IF GetNumberOfCells(clipped) > 0
                THEN /\ append' = Append(append, clipped)
                     /\ appended_from' = Append(appended_from, i)
                     /\ blocks_clipped' = blocks_clipped + 1
                     /\ UNCHANGED caught
                ELSE UNCHANGED <<append, appended_from, blocks_clipped, caught>>
       ELSE \* except MemoryError / except Exception: continue
            /\ caught' = caught \cup {i}
            /\ UNCHANGED <<append, appended_from, blocks_clipped>>

\* seeded fault: continue in place of break
StopLoopContinues(i) ==
    /\ NextBlock
    /\ stop_at' = i
    /\ UNCHANGED <<blocks_clipped, blocks_skipped, append, work, clip_started,
                   appended_from, caught>>

\* break
StopLoop(i) ==
    /\ pc' = "after_loop"
    /\ stop_at' = i
    /\ UNCHANGED <<block_idx, blocks_clipped, blocks_skipped, append, work,
                   clip_started, appended_from, caught>>

\* the memory check made before the block's clip: m1 is the first reading,
\* m2 the reading after gc.collect()
CheckMemory(i, m1, m2, outcome) ==
    /\ mem_first' = m1
    /\ mem_at' = i
    /\ mem_low' = IF m1 < SoftFloor THEN mem_low \cup {i} ELSE mem_low
    /\ IF m1 < SoftFloor
       THEN /\ mem' = m2
            /\ IF m2 < HardFloor THEN StopLoop(i) ELSE ClipOneBlock(i, outcome)
       ELSE /\ mem' = m1
            /\ ClipOneBlock(i, outcome)

clip_block ==
    /\ pc = "loop"
    /\ UNCHANGED <<mesh, mult, clipped_data, op, bounds, ret, path, pv, probe, point_arrays, writer>>
    /\ LET i == block_idx + 1
           block == mesh[i]
       IN  IF ~HasCells(block)
           THEN /\ NextBlock
                /\ UNCHANGED <<blocks_clipped, blocks_skipped, append, mem_first,
                               mem, mem_at, mem_low, work, clip_started, appended_from,
                               stop_at, caught>>
           ELSE IF ~_bounds_intersect(GetBounds(block.cells), bounds)
           THEN /\ NextBlock
                /\ blocks_skipped' = blocks_skipped + 1
                /\ UNCHANGED <<blocks_clipped, append, mem_first, mem, mem_at, mem_low,
                               work, clip_started, appended_from, stop_at, caught>>
           ELSE \E m1 \in MemLevels, outcome \in ClipOutcomes :
                    IF m1 < SoftFloor
                    THEN \E m2 \in MemLevels : CheckMemory(i, m1, m2, outcome)
                    ELSE CheckMemory(i, m1, m1, outcome)

\* what the loop and the code after it return when no memory check stops the
\* loop and no clip raises
CompleteBlockwise(output, b) ==
    Concat([i \in 1..Len(output) |->
               IF HasCells(output[i])
                  /\ _bounds_intersect(GetBounds(output[i].cells), b)
               THEN BoxClip(output[i].cells, b)
               ELSE <<>>])

\* the code after the loop
clip_blocks_return ==
    /\ pc = "after_loop"
    /\ pc' = "returned"
    /\ clipped_data' = IF blocks_clipped = 0 THEN Grid(<<>>) ELSE Grid(Concat(append))
    /\ work' = IF blocks_clipped = 0 THEN work ELSE work \cup {"merge"}
    /\ ret' = Returned(clipped_data')
    /\ UNCHANGED <<mesh, mult, op, bounds, path, loop, pv, probe, point_arrays, writer>>

-----------------------------------------------------------------------------
(* clip_with_plane, clip_with_sphere *)

MergedInput(output) ==
    IF GetNumberOfBlocks(output) > 0 THEN _merge_blocks(output) ELSE <<>>

MergeWork(output) == IF GetNumberOfBlocks(output) > 0 THEN {"merge"} ELSE {}

\* seeded fault: the clipper's output is stored before Update() is known to
\* have succeeded
clip_with_plane_stores_first(origin, normal, invert, outcome) ==
    /\ CanCall
    /\ op' = "plane"
    /\ path' = <<"monolithic">>
    /\ work' = MergeWork(mesh) \cup {"clip"}
    /\ ResetLoop
    /\ UNCHANGED <<mesh, mult, bounds, pv, probe, point_arrays, writer>>
    /\ IF outcome = "ok"
       THEN /\ pc' = "returned"
            /\ clipped_data' = Grid(TableBasedClip(MergedInput(mesh),
                                   PlaneFn(origin, normal), invert))
            /\ ret' = Returned(clipped_data')
       ELSE /\ pc' = "raised"
            /\ ret' = Raised(outcome)
            /\ clipped_data' = Grid(<<>>)

\* except Exception: ... raise
clip_with_plane(origin, normal, invert, outcome) ==
    /\ CanCall
    /\ op' = "plane"
    /\ path' = <<"monolithic">>
    /\ work' = MergeWork(mesh) \cup {"clip"}
    /\ ResetLoop
    /\ UNCHANGED <<mesh, mult, bounds, pv, probe, point_arrays, writer>>
    /\ IF outcome = "ok"
       THEN /\ pc' = "returned"
            /\ clipped_data' = Grid(TableBasedClip(MergedInput(mesh),
                                   PlaneFn(origin, normal), invert))
            /\ ret' = Returned(clipped_data')
       ELSE /\ pc' = "raised"
            /\ ret' = Raised(outcome)
            /\ UNCHANGED clipped_data

\* no try around clipper.Update()
clip_with_sphere(center, radius, outcome) ==
    /\ CanCall
    /\ op' = "sphere"
    /\ path' = <<"monolithic">>
    /\ work' = MergeWork(mesh) \cup {"clip"}
    /\ ResetLoop
    /\ UNCHANGED <<mesh, mult, bounds, pv, probe, point_arrays, writer>>
    /\ IF outcome = "ok"
       THEN /\ pc' = "returned"
            /\ clipped_data' = Grid(TableBasedClip(MergedInput(mesh),
                                   SphereFn(center, radius), TRUE))
            /\ ret' = Returned(clipped_data')
       ELSE /\ pc' = "raised"
            /\ ret' = Raised(outcome)
            /\ UNCHANGED clipped_data

-----------------------------------------------------------------------------
(* The ParaView scripts *)

AllCells(output) ==
    Concat([i \in 1..Len(output) |->
               IF output[i].present THEN output[i].cells ELSE <<>>])

\* ParaView's Clip filter: with Crinkleclip whole cells are extracted,
\* boundary cells included; without, the cells are cut
Clip(cells, fn, Invert, Crinkleclip) ==
    IF Crinkleclip = 1
    THEN ExtractGeometry(cells, fn, Invert = 1, TRUE)
    ELSE TableBasedClip(cells, fn, Invert = 1)

\* seeded fault: clip_box clips in crinkle mode whatever --exact-clip says
pv_clip_box_crinkle(b, exact_clip, exists) ==
    /\ pc = "idle"
    /\ pv = NoScript
    /\ UNCHANGED <<mesh, mult, engine, loop, probe, point_arrays, writer>>
    /\ IF ~exists
       THEN pv' = [NoScript EXCEPT !.script = "clip_box", !.exit = "1"]
       ELSE pv' = [script |-> "clip_box", exit |-> "0", ClipType |-> "Box",
                   Invert |-> 1, Crinkleclip |-> 1, bounds |-> b,
                   radius |-> 0, clipped |-> TRUE,
                   out |-> Clip(AllCells(mesh), BoxFn(b, 1), 1, 1),
                   exact_clip |-> IF exact_clip THEN "True" ELSE "False"]

\* src/clip_box.py: main() and clip_box(); the record keeps the caller's
\* exact_clip, "none" where the entry point takes no such flag
pv_clip_box(b, exact_clip, exists) ==
    /\ pc = "idle"
    /\ pv = NoScript
    /\ UNCHANGED <<mesh, mult, engine, loop, probe, point_arrays, writer>>
    /\ IF ~exists
       THEN pv' = [NoScript EXCEPT !.script = "clip_box", !.exit = "1"]
       ELSE LET crinkle == IF exact_clip THEN 0 ELSE 1
            IN  pv' = [script |-> "clip_box", exit |-> "0", ClipType |-> "Box",
                       Invert |-> 1, Crinkleclip |-> crinkle, bounds |-> b,
                       radius |-> 0, clipped |-> TRUE,
                       out |-> Clip(AllCells(mesh), BoxFn(b, 1), 1, crinkle),
                       exact_clip |-> IF exact_clip THEN "True" ELSE "False"]

\* src/scripts/paraview/paraview_clip.py: main() and clip_ensight_box()
paraview_clip_main(type, b, radius, exists) ==
    /\ pc = "idle"
    /\ pv = NoScript
    /\ UNCHANGED <<mesh, mult, engine, loop, probe, point_arrays, writer>>
    /\ LET Exit1 == [NoScript EXCEPT !.script = "paraview_clip", !.exit = "1"]
           Ran(kind, inv, bb, r, cells) ==
               [script |-> "paraview_clip", exit |-> "0", ClipType |-> kind,
                Invert |-> inv, Crinkleclip |-> 0, bounds |-> bb, radius |-> r,
                clipped |-> TRUE, out |-> cells, exact_clip |-> "none"]
       IN  IF ~exists THEN pv' = Exit1
           ELSE IF type = "box"
           THEN IF b = NoBounds \/ Len(b) # 6 THEN pv' = Exit1
                ELSE pv' = Ran("Box", 1, b, 0,
                               Clip(AllCells(mesh), BoxFn(b, 1), 1, 0))
           ELSE IF type = "plane"
           THEN pv' = Ran("Plane", 0, NoScript.bounds, 0,
                          Clip(AllCells(mesh),
                               PlaneFn(<<0, 0, 0>>, <<1, 0, 0>>), 0, 0))
           ELSE IF radius = 0 THEN pv' = Exit1
                ELSE pv' = Ran("Sphere", 1, NoScript.bounds, radius,
                               Clip(AllCells(mesh),
                                    SphereFn(<<5, 1, 1>>, radius), 1, 0))

-----------------------------------------------------------------------------

Next ==
    \/ \E b \in Boxes, use_prefilter \in BOOLEAN, m \in MemLevels,
          outcome \in ClipOutcomes :
            IF m < WarnFloor
            THEN \E response \in {"j", "n"} :
                    clip_with_box(b, use_prefilter, m, response, outcome)
            ELSE clip_with_box(b, use_prefilter, m, "", outcome)
    \/ clip_block
    \/ clip_blocks_return
    \/ \E origin \in PlaneOrigins, normal \in PlaneNormals, invert \in BOOLEAN,
          outcome \in ClipOutcomes :
            clip_with_plane(origin, normal, invert, outcome)
    \/ \E center \in SphereCenters, radius \in SphereRadii,
          outcome \in ClipOutcomes :
            clip_with_sphere(center, radius, outcome)
    \/ \E b \in Boxes, exact_clip \in BOOLEAN, exists \in BOOLEAN :
            pv_clip_box(b, exact_clip, exists)
    \/ \E type \in {"box", "plane", "sphere"}, b \in BoundsArgs,
          radius \in RadiusArgs, exists \in BOOLEAN :
            paraview_clip_main(type, b, radius, exists)

Spec == Init /\ [][Next]_vars

-----------------------------------------------------------------------------
(* _bounds_intersect on its own: every pair of boxes over a small lattice *)

Intervals == {<<lo, hi>> \in (0..MaxCoord) \X (0..MaxCoord) : lo <= hi}

LatticeBounds ==
    {<<x[1], x[2], y[1], y[2], z[1], z[2]>> :
        x \in Intervals, y \in Intervals, z \in Intervals}

InitBounds ==
    /\ mesh = <<>>
    /\ mult = 50001
    /\ Idle
    /\ block_bounds \in LatticeBounds
    /\ box_bounds \in LatticeBounds
    /\ intersects = "unset"
    /\ NoMeta
    /\ NoSession
    /\ NoMonitor
    /\ NoWriter

bounds_intersect_call ==
    /\ intersects = "unset"
    /\ intersects' = IF _bounds_intersect(block_bounds, box_bounds) THEN "True" ELSE "False"
    /\ UNCHANGED <<mesh, mult, engine, loop, pv, block_bounds, box_bounds, meta, session, monitor,
                   point_arrays, writer>>

NextBounds == bounds_intersect_call

SpecBounds == InitBounds /\ [][NextBounds]_vars

-----------------------------------------------------------------------------
(* clip_box.py on meshes of hexahedra centred at the origin *)

\* the hexahedron whose 8 nodes are the corners of [-h,h]^3
Hexa(h) == Cell({<<x, y, z>> : x \in {-h, h}, y \in {-h, h}, z \in {-h, h}})

\* --xmin=-h --xmax=h --ymin=-h --ymax=h --zmin=-h --zmax=h
CubeBox(h) == <<-h, h, -h, h, -h, h>>

HexaBlocks == {NoBlock} \cup {Block(<<Hexa(h)>>) : h \in {2, 5, 10}}

InitHexa ==
    /\ mesh \in UNION {[1..n -> HexaBlocks] : n \in 1..2}
    /\ mult = 1
    /\ Idle
    /\ block_bounds = <<0, 0, 0, 0, 0, 0>>
    /\ box_bounds = <<0, 0, 0, 0, 0, 0>>
    /\ intersects = "unset"
    /\ NoMeta
    /\ NoSession
    /\ NoMonitor
    /\ NoWriter

NextHexa ==
    \E h \in {3, 5, 10}, exact_clip \in BOOLEAN, exists \in BOOLEAN :
        pv_clip_box(CubeBox(h), exact_clip, exists)

SpecHexa == InitHexa /\ [][NextHexa]_vars

-----------------------------------------------------------------------------
(* vtu_to_ensight_gold.py: conversions of one .vtu file *)

InitWrite ==
    /\ mesh = <<>>
    /\ mult = 1
    /\ Idle
    /\ block_bounds = <<0, 0, 0, 0, 0, 0>>
    /\ box_bounds = <<0, 0, 0, 0, 0, 0>>
    /\ intersects = "unset"
    /\ NoMeta
    /\ NoSession
    /\ NoMonitor
    /\ point_arrays = <<>>
    /\ grid \in Grids
    /\ WriterIdle

NextWrite ==
    \E binary \in BOOLEAN :
        \/ convert_vtu_to_ensight_gold(binary, FALSE, 0, 0)
        \/ convert_vtu_to_ensight_gold(binary, TRUE, 0, 0)
        \/ \E fault_step \in 1..(MaxArrays + 2), cut \in FaultCuts :
               convert_vtu_to_ensight_gold(binary, TRUE, fault_step, cut)

SpecWrite == InitWrite /\ [][NextWrite]_vars

-----------------------------------------------------------------------------
(* ensight_clip.py: merging blocks that carry different point arrays *)

\* vtkAppendFilter / vtkAppendDataSets: the output carries the point arrays
\* that all inputs have in common; `inputs` are 1-based block indices
AppendPointArrays(inputs) ==
    IF inputs = {} THEN {}
    ELSE {a \in UNION {point_arrays[i] : i \in inputs} :
             \A i \in inputs : a \in point_arrays[i]}

\* the blocks _merge_blocks has added to its append filter
MonolithicMergeInputs ==
    IF GetNumberOfBlocks(mesh) > 0 /\ Len(path) > 0 /\ path[1] = "monolithic"
    THEN {i \in 1..Len(mesh) : HasCells(mesh[i])}
    ELSE {}

\* the blocks whose clipped output _clip_blocks_individually has merged
BlockwiseMergeInputs ==
    IF pc = "returned" /\ Len(path) > 0 /\ path[Len(path)] = "blockwise"
       /\ blocks_clipped > 0
    THEN {appended_from[k] : k \in 1..Len(appended_from)}
    ELSE {}

\* the point arrays of self.clipped_data: the clip filters pass on every
\* point array of their input
ClippedPointArrays ==
    IF pc # "returned" THEN {}
    ELSE IF path[Len(path)] = "blockwise"
    THEN AppendPointArrays(BlockwiseMergeInputs)
    ELSE AppendPointArrays(MonolithicMergeInputs)

InitMerge ==
    /\ mesh \in UNION {[1..n -> {NoBlock, Block(<<CellInside>>),
                                  Block(<<CellInside, CellFar>>)}] : n \in 1..MaxBlocks}
    /\ mult \in {50001, 10000001}
    /\ Idle
    /\ block_bounds = <<0, 0, 0, 0, 0, 0>>
    /\ box_bounds = <<0, 0, 0, 0, 0, 0>>
    /\ intersects = "unset"
    /\ NoMeta
    /\ NoSession
    /\ NoMonitor
    /\ point_arrays \in [1..Len(mesh) -> SUBSET ArrayNames]
    /\ grid = NoGrid
    /\ WriterIdle

NextMerge ==
    \/ \E use_prefilter \in BOOLEAN, outcome \in ClipOutcomes :
            clip_with_box(BoxA, use_prefilter, 3072, "", outcome)
    \/ clip_block
    \/ clip_blocks_return
    \/ \E normal \in PlaneNormals, outcome \in ClipOutcomes :
            clip_with_plane(<<5, 1, 1>>, normal, FALSE, outcome)
    \/ \E outcome \in ClipOutcomes : clip_with_sphere(<<5, 1, 1>>, 2, outcome)

SpecMerge == InitMerge /\ [][NextMerge]_vars

-----------------------------------------------------------------------------
(* EnSightClipper: a caller that clips several times and writes the result *)

MaxCalls == 2

\* the clip operation has returned or raised: the caller has control again
caller_continues ==
    /\ pc \in {"returned", "raised"}
    /\ calls < MaxCalls
    /\ pc' = "idle"
    /\ calls' = calls + 1
    /\ data_before' = clipped_data
    /\ ever_returned' = (ever_returned \/ pc = "returned")
    /\ UNCHANGED <<mesh, mult, clipped_data, op, bounds, ret, work, path, loop,
                   pv, block_bounds, box_bounds, intersects, meta, output_path,
                   write_ret, monitor, point_arrays, writer>>

\* seeded fault: the output directory is made before clipped_data is looked at
write_ensight_mkdir_first ==
    /\ pc = "idle"
    /\ write_ret = "none"
    /\ IF clipped_data.is_none
       THEN /\ write_ret' = "ValueError"
            /\ output_path' = [Untouched EXCEPT !.created = TRUE]
       ELSE /\ write_ret' = "returned"
            /\ output_path' = [created |-> TRUE, written |-> TRUE,
                                cells |-> clipped_data.cells]
    /\ UNCHANGED <<mesh, mult, loop, pv, block_bounds, box_bounds,
                   intersects, meta, monitor, calls, data_before,
                   ever_returned>>
    /\ UNCHANGED <<clipped_data, op, bounds, ret, work, path, point_arrays,
                   writer>>
    /\ pc' = "written"

\* write_ensight(output_dir, base_name): `cells` are the cells of
\* self.clipped_data the written case is made from; the caller's session ends
\* with it
write_ensight ==
    /\ pc = "idle"
    /\ write_ret = "none"
    /\ IF clipped_data.is_none
       THEN /\ write_ret' = "ValueError"
            /\ UNCHANGED output_path
       ELSE /\ write_ret' = "returned"
            /\ output_path' = [created |-> TRUE, written |-> TRUE,
                                cells |-> clipped_data.cells]
    /\ UNCHANGED <<mesh, mult, loop, pv, block_bounds, box_bounds,
                   intersects, meta, monitor, calls, data_before,
                   ever_returned>>
    /\ UNCHANGED <<clipped_data, op, bounds, ret, work, path, point_arrays,
                   writer>>
    /\ pc' = "written"

InitSeq ==
    /\ mesh \in {<<Block(<<CellInside>>)>>, <<Block(<<CellInside, CellFar>>)>>,
                  <<Block(<<CellOut>>), Block(<<CellNear>>)>>}
    /\ mult \in {50001, 10000001}
    /\ Idle
    /\ block_bounds = <<0, 0, 0, 0, 0, 0>>
    /\ box_bounds = <<0, 0, 0, 0, 0, 0>>
    /\ intersects = "unset"
    /\ NoMeta
    /\ NoSession
    /\ NoMonitor
    /\ NoWriter

NextSeq ==
    \/ \E b \in {BoxA, BoxAway}, outcome \in ClipOutcomes :
            clip_with_box(b, TRUE, 3072, "", outcome)
    \/ clip_block
    \/ clip_blocks_return
    \/ \E normal \in PlaneNormals, outcome \in ClipOutcomes :
            clip_with_plane(<<5, 1, 1>>, normal, FALSE, outcome)
    \/ \E outcome \in ClipOutcomes : clip_with_sphere(<<5, 1, 1>>, 2, outcome)
    \/ caller_continues
    \/ write_ensight

SpecSeq == InitSeq /\ [][NextSeq]_vars

-----------------------------------------------------------------------------
(* scripts/paraview/paraview_clip.py: ProgressMonitor and its thread *)

MaxIter == 2       \* progress lines the monitor thread prints while running
MaxUpdates == 2    \* progress events of the observed filter
MaxStops == 2      \* calls of stop()

\* progress in thousandths: 0.0, 0.001, 0.002, 0.5, 1.0
ProgressValues == {0, 1, 2, 500, 1000}

\* current_progress > 0.001
EtaShown(p) == p > 1

\* a progress line: `divisor` is what elapsed was divided by for the ETA,
\* -1 when the heartbeat was shown and nothing was divided
ProgressLine(percent, divisor) ==
    [kind |-> "progress", percent |-> percent, divisor |-> divisor]

Fertig == [kind |-> "Fertig", percent |-> 1000, divisor |-> -1]

BesideMonitor ==
    <<mesh, mult, engine, loop, pv, block_bounds, box_bounds, intersects, meta,
      session, point_arrays, writer>>

\* start()
start ==
    /\ call_pc = "new"
    /\ running' = TRUE
    /\ thread' = "while"
    /\ call_pc' = "started"
    /\ UNCHANGED <<progress, current_progress, iteration, printed, updates, stops,
                   after_stop>>
    /\ UNCHANGED BesideMonitor

\* ProgressObserver.__call__ -> update_progress(p), under the lock
update_progress(p) ==
    /\ call_pc = "started"
    /\ updates < MaxUpdates
    /\ updates' = updates + 1
    /\ progress' = p
    /\ UNCHANGED <<running, thread, current_progress, iteration, printed, call_pc,
                   stops, after_stop>>
    /\ UNCHANGED BesideMonitor

\* stop(), up to the join: `if self.running: self.running = False`
stop ==
    /\ call_pc \in {"new", "started", "stopped"}
    /\ stops < MaxStops
    /\ IF running
       THEN /\ running' = FALSE
            /\ call_pc' = "join"
            /\ UNCHANGED stops
       ELSE /\ stops' = stops + 1
            /\ UNCHANGED <<running, call_pc>>
    /\ UNCHANGED <<progress, thread, current_progress, iteration, printed, updates,
                   after_stop>>
    /\ UNCHANGED BesideMonitor

\* stop(), from the join on: thread.join(timeout=2.0) comes back when the
\* thread has ended or when the time is up, then the final line is printed
stop_join(timed_out) ==
    /\ call_pc = "join"
    /\ thread = "ended" \/ timed_out
    /\ printed' = Append(printed, Fertig)
    /\ call_pc' = "stopped"
    /\ stops' = stops + 1
    /\ UNCHANGED <<running, progress, thread, current_progress, iteration, updates,
                   after_stop>>
    /\ UNCHANGED BesideMonitor

\* _monitor_loop: `while self.running:`
monitor_while ==
    /\ thread = "while"
    /\ running => iteration < MaxIter
    /\ thread' = IF running THEN "read" ELSE "ended"
    /\ UNCHANGED <<running, progress, current_progress, iteration, printed,
                   call_pc, updates, stops, after_stop>>
    /\ UNCHANGED BesideMonitor

\* `with self.lock: current_progress = self.progress`
monitor_read ==
    /\ thread = "read"
    /\ current_progress' = progress
    /\ thread' = "print"
    /\ UNCHANGED <<running, progress, iteration, printed, call_pc, updates, stops,
                   after_stop>>
    /\ UNCHANGED BesideMonitor

\* seeded fault: the ETA divides by self.progress, read again without the lock
monitor_print_reads_again ==
    /\ thread = "print"
    /\ printed' = Append(printed,
                     ProgressLine(current_progress,
                         IF EtaShown(current_progress) THEN progress ELSE -1))
    /\ iteration' = iteration + 1
    /\ after_stop' = after_stop + (IF running THEN 0 ELSE 1)
    /\ thread' = "sleep"
    /\ UNCHANGED <<running, progress, current_progress, call_pc, updates, stops>>
    /\ UNCHANGED BesideMonitor

\* the ETA or the heartbeat, and the print of the progress line
monitor_print ==
    /\ thread = "print"
    /\ printed' = Append(printed,
                     ProgressLine(current_progress,
                         IF EtaShown(current_progress) THEN current_progress
                         ELSE -1))
    /\ iteration' = iteration + 1
    /\ after_stop' = after_stop + (IF running THEN 0 ELSE 1)
    /\ thread' = "sleep"
    /\ UNCHANGED <<running, progress, current_progress, call_pc, updates, stops>>
    /\ UNCHANGED BesideMonitor

\* time.sleep(self.update_interval)
monitor_sleep ==
    /\ thread = "sleep"
    /\ thread' = "while"
    /\ UNCHANGED <<running, progress, current_progress, iteration, printed,
                   call_pc, updates, stops, after_stop>>
    /\ UNCHANGED BesideMonitor

_monitor_loop == monitor_while \/ monitor_read \/ monitor_print \/ monitor_sleep

InitMonitor ==
    /\ mesh = <<>>
    /\ mult = 1
    /\ Idle
    /\ block_bounds = <<0, 0, 0, 0, 0, 0>>
    /\ box_bounds = <<0, 0, 0, 0, 0, 0>>
    /\ intersects = "unset"
    /\ NoMeta
    /\ NoSession
    /\ NoMonitor
    /\ NoWriter

NextMonitor ==
    \/ start
    \/ \E p \in ProgressValues : update_progress(p)
    \/ stop
    \/ \E timed_out \in BOOLEAN : stop_join(timed_out)
    \/ monitor_while
    \/ monitor_read
    \/ monitor_print
    \/ monitor_sleep

\* the monitor thread is scheduled as long as it has a step to take
SpecMonitor == InitMonitor /\ [][NextMonitor]_vars /\ WF_vars(_monitor_loop)

-----------------------------------------------------------------------------
(* _create_xml_from_data: the units of a point array, by its name *)

MaxParts == 2

\* a name is a sequence of characters
pressure == <<"p", "r", "e", "s", "s", "u", "r", "e">>
velocity == <<"v", "e", "l", "o", "c", "i", "t", "y">>
turb_kinetic_energy ==
    <<"t", "u", "r", "b", "_", "k", "i", "n", "e", "t", "i", "c", "_",
      "e", "n", "e", "r", "g", "y">>
turb_diss == <<"t", "u", "r", "b", "_", "d", "i", "s", "s">>
temperature == <<"t", "e", "m", "p", "e", "r", "a", "t", "u", "r", "e">>
density == <<"d", "e", "n", "s", "i", "t", "y">>

\* the pieces the names of the model are put together from: the keywords,
\* keywords in upper and mixed case, parts of keywords, other characters
NameParts ==
    {pressure, velocity, turb_kinetic_energy, turb_diss, temperature, density,
     <<"P", "r", "e", "s", "s", "u", "r", "e">>,
     <<"V", "E", "L", "O", "C", "I", "T", "Y">>,
     <<"D", "e", "n", "s", "i", "t", "Y">>,
     <<"t", "u", "r", "b", "_">>, <<"d", "i", "s", "s">>,
     <<"p", "r", "e", "s">>, <<"s", "u", "r", "e">>, <<"x">>}

ArrayNameChoices ==
    UNION {{Concat(parts) : parts \in [1..n -> NameParts]} : n \in 0..MaxParts}

\* str.lower() on the letters of the model
LowerChar(c) ==
    CASE c = "P" -> "p" [] c = "V" -> "v" [] c = "E" -> "e" [] c = "L" -> "l"
      [] c = "O" -> "o" [] c = "C" -> "c" [] c = "I" -> "i" [] c = "T" -> "t"
      [] c = "Y" -> "y" [] c = "D" -> "d" [] OTHER -> c

lower(name) == [i \in 1..Len(name) |-> LowerChar(name[i])]

\* `keyword in name`
In(keyword, name) ==
    \E i \in 0..(Len(name) - Len(keyword)) :
        SubSeq(name, i + 1, i + Len(keyword)) = keyword

\* seeded fault: the GUI asks for velocity before pressure
GuiUnitsVelocityFirst(name) ==
    IF In(velocity, lower(name)) THEN <<"m s^-1", "L/T">>
    ELSE IF In(pressure, lower(name)) THEN <<"Pa", "M/LTT">>
    ELSE IF In(turb_kinetic_energy, lower(name)) THEN <<"m^2 s^-2", "LL/TT">>
    ELSE IF In(turb_diss, lower(name)) THEN <<"m^2 s^-3", "LL/TTT">>
    ELSE IF In(temperature, lower(name)) THEN <<"K", "Theta">>
    ELSE IF In(density, lower(name)) THEN <<"kg m^-3", "M/LLL">>
    ELSE <<"", "">>

\* EnSightClipper._create_xml_from_data: units_label, units_dims
\* ("Theta" stands for the Greek capital letter of the source)
CliUnits(name) ==
    IF In(pressure, lower(name)) THEN <<"Pa", "M/LTT">>
    ELSE IF In(velocity, lower(name)) THEN <<"m s^-1", "L/T">>
    ELSE IF In(turb_kinetic_energy, lower(name)) THEN <<"m^2 s^-2", "LL/TT">>
    ELSE IF In(turb_diss, lower(name)) THEN <<"m^2 s^-3", "LL/TTT">>
    ELSE IF In(temperature, lower(name)) THEN <<"K", "Theta">>
    ELSE IF In(density, lower(name)) THEN <<"kg m^-3", "M/LLL">>
    ELSE <<"", "">>

\* EnSightClipperGUI._create_xml_from_data: units_label, units_dims
GuiUnits(name) ==
    IF In(pressure, lower(name)) THEN <<"Pa", "M/LTT">>
    ELSE IF In(velocity, lower(name)) THEN <<"m s^-1", "L/T">>
    ELSE IF In(turb_kinetic_energy, lower(name)) THEN <<"m^2 s^-2", "LL/TT">>
    ELSE IF In(turb_diss, lower(name)) THEN <<"m^2 s^-3", "LL/TTT">>
    ELSE IF In(temperature, lower(name)) THEN <<"K", "Theta">>
    ELSE IF In(density, lower(name)) THEN <<"kg m^-3", "M/LLL">>
    ELSE <<"", "">>

InitXml ==
    /\ mesh = <<>>
    /\ mult = 1
    /\ Idle
    /\ block_bounds = <<0, 0, 0, 0, 0, 0>>
    /\ box_bounds = <<0, 0, 0, 0, 0, 0>>
    /\ intersects = "unset"
    /\ xml_array_name \in ArrayNameChoices
    /\ xml_cli = <<>>
    /\ xml_gui = <<>>
    /\ NoSession
    /\ NoMonitor
    /\ NoWriter

cli_create_xml_from_data ==
    /\ xml_cli = <<>>
    /\ xml_cli' = CliUnits(xml_array_name)
    /\ UNCHANGED <<mesh, mult, engine, loop, pv, block_bounds, box_bounds,
                   intersects, xml_array_name, xml_gui, session, monitor, point_arrays,
                   writer>>

gui_create_xml_from_data ==
    /\ xml_gui = <<>>
    /\ xml_gui' = GuiUnits(xml_array_name)
    /\ UNCHANGED <<mesh, mult, engine, loop, pv, block_bounds, box_bounds,
                   intersects, xml_array_name, xml_cli, session, monitor, point_arrays,
                   writer>>

NextXml == cli_create_xml_from_data \/ gui_create_xml_from_data

SpecXml == InitXml /\ [][NextXml]_vars

-----------------------------------------------------------------------------
(* Properties *)

Range(seq) == {seq[i] : i \in 1..Len(seq)}

InvalidBox(b) == \E a \in 1..3 : b[2 * a - 1] > b[2 * a]

AllOutside(c, b) == \A p \in c.nodes : BoxSign(b, p) > 0

\* C1: in the block loop, when the check made before clipping block k reads
\* less than 1 GiB and, after gc.collect(), still less than 512 MiB, the loop
\* stops: block k and every later block is never clipped and never appended.
C1_MemoryStopEndsLoop ==
    (mem_at > 0 /\ mem_first < 1024 /\ mem < 512) =>
        /\ pc \in {"after_loop", "returned"}
        /\ \A j \in mem_at..Len(mesh) :
              j \notin clip_started /\ j \notin Range(appended_from)

C1_Witness ==
    /\ pc = "returned"
    /\ mem_at = 1 /\ mem_first < 1024 /\ mem < 512
    /\ Len(mesh) = 2 /\ HasCells(mesh[2])
    /\ _bounds_intersect(GetBounds(mesh[2].cells), bounds)

\* C2: when the hard floor trips on entering block k, the returned result
\* holds the clipped cells of the blocks before k and tells the caller that
\* blocks k..n were skipped for memory.  All the caller is handed is the
\* returned value, so it can tell a partial result from a complete one only
\* if no complete run, on any mesh, returns that same value.
C2_PartialResultTold ==
    (pc = "returned" /\ stop_at > 1 /\ blocks_clipped > 0 /\ caught = {}) =>
        /\ ret.data.cells = CompleteBlockwise(SubSeq(mesh, 1, stop_at - 1), bounds)
        /\ \A complete \in Meshes :
              ret # Returned(Grid(CompleteBlockwise(complete, bounds)))

\* C3 as stated: the monolithic path is taken iff the mesh is a single block
\* with fewer than 10,000,000 cells (shown on meshes that have blocks).
C3_SingleBlockBelowThreshold ==
    (op = "box" /\ pc # "idle" /\ Len(mesh) > 0) =>
        ((path[1] = "monolithic")
            <=> (Len(mesh) = 1 /\ TotalCells(mesh) < 10000000))

\* C3 amended: clip_with_box goes straight to the block loop iff the mesh has
\* at least one block and more than 10,000,000 cells in total; every other
\* mesh, whatever its number of blocks, starts on the monolithic path.
C3_StrategySelection ==
    (op = "box" /\ pc # "idle") =>
        ((path[1] = "blockwise")
            <=> (Len(mesh) > 0 /\ TotalCells(mesh) > 10000000))

C3_Witness ==
    /\ op = "box" /\ pc = "returned" /\ path = <<"monolithic">>
    /\ Len(mesh) = 2 /\ TotalCells(mesh) = 10000000

\* C4: a box with min > max on an axis, or a malformed sphere radius, is
\* rejected with an error before any block is merged, pre-filtered or clipped,
\* and no clipped result is produced.
C4_InvalidPredicateRejected ==
    /\ (op = "box" /\ InvalidBox(bounds) /\ pc \in {"returned", "raised"}) =>
            (pc = "raised" /\ work = {} /\ clipped_data = NoneData)
    /\ (pv.ClipType = "Box" /\ InvalidBox(pv.bounds)) => ~pv.clipped
    /\ (pv.ClipType = "Sphere" /\ pv.radius <= 0) => ~pv.clipped

\* C5: if the box clip returns zero cells, then the box does not overlap the
\* bounding box of the mesh or every cell of the mesh has all its nodes
\* outside the box; here for the block-wise path, after any per-block outcomes
\* (disjoint skip, memory stop, per-block error, normal clip).
C5_EmptyMeansOutside ==
    (op = "box" /\ pc = "returned" /\ path # <<>>
            /\ path[Len(path)] = "blockwise" /\ ~InvalidBox(bounds)
            /\ GetNumberOfCells(ret.data.cells) = 0) =>
        LET all == AllCells(mesh)
        IN  \/ \A i \in 1..Len(all) : AllOutside(all[i], bounds)
            \/ ~_bounds_intersect(GetBounds(all), bounds)

Interval(b, a) == b[2 * a - 1]..b[2 * a]

AxisDisjoint(b1, b2, a) == Interval(b1, a) \cap Interval(b2, a) = {}

PointsWithin(b) == Interval(b, 1) \X Interval(b, 2) \X Interval(b, 3)

\* C6: _bounds_intersect(blockBounds, boxBounds) is False iff the two boxes
\* have disjoint intervals on at least one axis; so when it is False no point
\* within the block bounds lies in the closed clip box, and boxes that only
\* touch on a face give True.
C6_BoundsIntersect ==
    (intersects # "unset") =>
        /\ (intersects = "False")
              <=> (\E a \in 1..3 : AxisDisjoint(block_bounds, box_bounds, a))
        /\ (intersects = "False") =>
              \A p \in PointsWithin(block_bounds) : BoxSign(box_bounds, p) > 0

\* two boxes sharing only the face x = block xmax = box xmin
C6_Witness ==
    /\ intersects = "True"
    /\ block_bounds[2] = box_bounds[1]
    /\ block_bounds[1] < block_bounds[2] /\ box_bounds[1] < box_bounds[2]
    /\ \A a \in 2..3 : ~AxisDisjoint(block_bounds, box_bounds, a)

BlocksWithCells == {i \in 1..Len(mesh) : HasCells(mesh[i])}

\* a well-formed box, away from the bounding box of a mesh that has cells,
\* handed to the block loop
BoxOutsideMesh ==
    /\ op = "box" /\ path # <<>> /\ path[Len(path)] = "blockwise"
    /\ BlocksWithCells # {}
    /\ ~InvalidBox(bounds)
    /\ \E a \in 1..3 : AxisDisjoint(bounds, GetBounds(AllCells(mesh)), a)

C8_MemoryErrorNeverPropagates ==
    (op \in {"plane", "box", "sphere"} /\ pc = "raised") =>
        ret.error # "MemoryError"

\* C9: for a multi-block mesh and a box, with memory never below the floors
\* and no per-block error, the block-wise path returns as many cells as the
\* monolithic path (merge, optional pre-filter, one clip) does.
C9_SameCellCount ==
    (op = "box" /\ pc = "returned" /\ path # <<>>
            /\ path[Len(path)] = "blockwise"
            /\ Cardinality(BlocksWithCells) >= 2 /\ ~InvalidBox(bounds)
            /\ mem_low = {} /\ stop_at = 0 /\ caught = {}) =>
        \A use_prefilter \in BOOLEAN :
            GetNumberOfCells(ret.data.cells)
                = GetNumberOfCells(
                      BoxClip(MonolithicInput(mesh, bounds, use_prefilter), bounds))

Count(c, cells) == Cardinality({i \in 1..Len(cells) : cells[i] = c})

\* the cells a crinkle clip of the loaded case keeps
CrinkleKept(Invert) == Clip(AllCells(mesh), BoxFn(pv.bounds, 1), Invert, 1)

CrinkleRun == pv.script = "clip_box" /\ pv.clipped /\ pv.Crinkleclip = 1

ScenarioA ==
    /\ CrinkleRun
    /\ pv.bounds = CubeBox(5)
    /\ mesh = <<Block(<<Hexa(10)>>)>>
    /\ mult = 1

\* C11 as stated: for the box [-5,5]^3 and the one hexahedron with the
\* corners of [-10,10]^3 the crinkle clip keeps the hexahedron unchanged,
\* 1 cell and 8 points.
C11_ScenarioAKeepsHexa ==
    ScenarioA =>
        /\ pv.out = <<Hexa(10)>>
        /\ GetNumberOfCells(pv.out) = 1
        /\ GetNumberOfPoints(pv.out) = 8

\* C11 amended: the crinkle clip classifies a cell by its nodes: it keeps the
\* cell, unchanged, iff a node lies in the closed box; so for the box
\* [-5,5]^3 the hexahedron with the corners of [-10,10]^3, whose 8 nodes are
\* all outside, is dropped: 0 cells and 0 points.
C11_CrinkleClassifiesByNodes ==
    /\ CrinkleRun =>
          pv.out = SelectSeq(AllCells(mesh),
                       LAMBDA c : \E p \in c.nodes : BoxSign(pv.bounds, p) <= 0)
    /\ ScenarioA =>
          /\ GetNumberOfCells(pv.out) = 0
          /\ GetNumberOfPoints(pv.out) = 0

C11_Witness == ScenarioA /\ pv.out = <<>>

\* the last conversion wrote the geometry file to its end
GeometryWritten == conv_pc # "idle" /\ geo_filename \in written

\* the cell-shape blocks read back from a geometry file: keyword, cell count
\* and connectivity of each, in file order
ShapeBlocksBinary(content) ==
    [k \in 1..((Len(content) - 12) \div 3) |->
        [keyword |-> content[12 + 3 * k - 2].text,
         count |-> content[12 + 3 * k - 1].nums[1],
         conn |-> content[12 + 3 * k].nums]]

ShapeBlocksAscii(content, n_points) ==
    LET first == 18 + 6 * n_points + 1
        starts == SelectSeq([i \in 1..Len(content) |-> i],
                      LAMBDA i : i >= first /\ content[i].t = "text")
        end(k) == IF k = Len(starts) THEN Len(content) ELSE starts[k + 1] - 1
        ints(k) == SelectSeq(SubSeq(content, starts[k] + 4, end(k)),
                       LAMBDA piece : piece.t = "int")
    IN  [k \in 1..Len(starts) |->
            [keyword |-> content[starts[k]].text,
             count |-> content[starts[k] + 2].nums[1],
             conn |-> [j \in 1..Len(ints(k)) |-> ints(k)[j].nums[1]]]]

ShapeBlocksWritten ==
    IF conv_binary THEN ShapeBlocksBinary(files[geo_filename])
    ELSE ShapeBlocksAscii(files[geo_filename], grid.n_points)

CellsOfType(type) == cell_type_lists(grid.cells, type)

DroppedCells ==
    Cardinality({i \in 1..Len(grid.cells) :
                    grid.cells[i].type \notin DOMAIN vtk_to_ensight})

\* every cell of a supported shape is written exactly once under its
\* keyword, with its count and its 1-based indices, and nothing else is
GeometryCellsExact ==
    LET blocks == ShapeBlocksWritten
    IN  /\ \A type \in DOMAIN vtk_to_ensight :
              LET mine == {k \in 1..Len(blocks) :
                              blocks[k].keyword = vtk_to_ensight[type].ensight_name}
                  cells == CellsOfType(type)
              IN  IF cells = <<>> THEN mine = {}
                  ELSE /\ Cardinality(mine) = 1
                       /\ \A k \in mine :
                             /\ blocks[k].count = Len(cells)
                             /\ blocks[k].conn =
                                    Concat([c \in 1..Len(cells) |->
                                        [j \in 1..vtk_to_ensight[type].n_nodes |->
                                            grid.cells[cells[c]].ids[j] + 1]])
        /\ \A k \in 1..Len(blocks) :
              /\ \E type \in DOMAIN vtk_to_ensight :
                    blocks[k].keyword = vtk_to_ensight[type].ensight_name
              /\ \A j \in 1..Len(blocks[k].conn) :
                    blocks[k].conn[j] \in 1..grid.n_points

\* C12: in the geometry writers every cell of a supported shape is written
\* exactly once under its shape keyword, the count written for a shape is the
\* number of its cells, every index written is the point id + 1 and lies in
\* 1..point count; cells of any other shape are written nowhere and the
\* number of dropped cells is reported.
C12_ShapesWrittenDroppedReported ==
    GeometryWritten =>
        /\ GeometryCellsExact
        /\ DroppedCells > 0 =>
              \E i \in 1..Len(log) :
                  /\ log[i].what \notin {"Punkte", "Zellen"}
                  /\ \A type \in DOMAIN vtk_to_ensight :
                        log[i].what # vtk_to_ensight[type].ensight_name
                  /\ \A k \in 1..Len(grid.arrays) :
                        log[i].what # grid.arrays[k].name
                  /\ log[i].n = DroppedCells

C12_SupportedCellsExact == GeometryWritten => GeometryCellsExact

\* the last conversion found its input and no write raised
Converted == conv_pc = "returned" /\ conv_ret

\* the VARIABLE lines of the manifest on disk
VariableLines ==
    SelectSeq(files[case_filename],
        LAMBDA l : l.key \in {"scalar per node:", "vector per node:"})

\* C13: convert_vtu_to_ensight_gold writes a field file for exactly the point
\* arrays with 1 or 3 components; an array with another component count is
\* skipped and reported (it is printed with its component count), gets no
\* file and no manifest line, and neither stops the other fields from being
\* written nor makes the conversion fail.
C13_OnlyScalarAndVectorFields ==
    (conv_pc = "returned" /\ runs > 0 /\ log # <<>>) =>
        /\ conv_ret
        /\ \A k \in 1..Len(grid.arrays) :
              LET a == grid.arrays[k]
              IN  IF a.comps \in {1, 3}
                  THEN /\ var_filename(a.name) \in written
                       /\ var_filename(a.name) \in DOMAIN files
                  ELSE /\ var_filename(a.name) \notin written
                       /\ \A i \in 1..Len(VariableLines) :
                             VariableLines[i].name # a.name
                       /\ \E i \in 1..Len(log) :
                             /\ log[i].what = a.name
                             /\ log[i].n = a.comps
                             /\ log[i].var_type \notin {"Skalar", "Vektor"}
        /\ written = {geo_filename, case_filename}
                        \cup {var_filename(grid.arrays[k].name) :
                                k \in {j \in 1..Len(grid.arrays) :
                                           grid.arrays[j].comps \in {1, 3}}}

C13_Witness ==
    /\ Converted
    /\ Len(grid.arrays) = 2
    /\ grid.arrays[1].comps = 4 /\ grid.arrays[2].comps = 3
    /\ var_filename(grid.arrays[2].name) \in written
    /\ var_filename(grid.arrays[1].name) \notin DOMAIN files

\* the file a manifest line names, next to the manifest
NamedFile(line) == Path(case_filename.dir, line.file)

\* C14: the VARIABLE section of the written .case manifest has one line per
\* written field, in the order the fields are declared on the mesh; the line
\* is 'scalar per node' iff the field has 1 component and 'vector per node'
\* iff it has 3; every file named by a VARIABLE line or by the GEOMETRY line
\* was written during the same run.
C14_ManifestMatchesFields ==
    Converted =>
        LET fields == SelectSeq(grid.arrays,
                          LAMBDA a : var_filename(a.name) \in written)
            lines == VariableLines
            manifest == files[case_filename]
        IN  /\ Len(lines) = Len(fields)
            /\ \A k \in 1..Len(lines) :
                  /\ lines[k].name = fields[k].name
                  /\ (lines[k].key = "scalar per node:") <=> (fields[k].comps = 1)
                  /\ (lines[k].key = "vector per node:") <=> (fields[k].comps = 3)
                  /\ NamedFile(lines[k]) = var_filename(fields[k].name)
                  /\ NamedFile(lines[k]) \in written
            /\ \E i \in 1..Len(manifest) : manifest[i].key = "model:"
            /\ \A i \in 1..Len(manifest) :
                  manifest[i].key = "model:" =>
                      /\ manifest[i - 1].key = "GEOMETRY"
                      /\ NamedFile(manifest[i]) \in written
            /\ \A i \in 1..Len(manifest) :
                  manifest[i].key \in {"scalar per node:", "vector per node:"} =>
                      \E j \in 1..(i - 1) : manifest[j].key = "VARIABLE"

C14_Witness ==
    /\ Converted
    /\ Len(VariableLines) = 2
    /\ VariableLines[1].key = "vector per node:"
    /\ VariableLines[2].key = "scalar per node:"

RECURSIVE SumBytes(_)
SumBytes(content) ==
    IF content = <<>> THEN 0 ELSE Head(content).n + SumBytes(Tail(content))

IsLine80(piece) == piece.t = "str" /\ piece.n = 80

IsInt32(piece, v) == piece.t = "i4" /\ piece.nums = <<v>> /\ piece.n = 4

\* the supported shapes that have cells in the grid
PresentShapes ==
    {type \in DOMAIN vtk_to_ensight : CellsOfType(type) # <<>>}

\* C15: the binary geometry file is, and is nothing but: four 80-byte header
\* lines, the part line, the int32 part index, the part-name line, the
\* coordinates line, the int32 point count, the X values of points 0..n-1,
\* then the Y values, then the Z values (never interleaved per point), then
\* for each present supported shape one keyword line, one int32 cell count
\* and count x nodes-per-shape int32 indices.
C15_BinaryGeometryLayout ==
    (GeometryWritten /\ conv_binary) =>
        LET content == files[geo_filename]
            n == grid.n_points
            shapes == Cardinality(PresentShapes)
        IN  /\ Len(content) = 12 + 3 * shapes
            /\ \A i \in {1, 2, 3, 4, 5, 7, 8} : IsLine80(content[i])
            /\ content[1].text = "C Binary"
            /\ content[3].text = "node id assign"
            /\ content[4].text = "element id assign"
            /\ content[5].text = "part"
            /\ IsInt32(content[6], 1)
            /\ content[8].text = "coordinates"
            /\ IsInt32(content[9], n)
            /\ \A dim \in 1..3 :
                  /\ content[9 + dim].t = "f4"
                  /\ content[9 + dim].n = 4 * n
                  /\ content[9 + dim].nums = [i \in 1..n |-> GetPoint(i - 1)[dim]]
            /\ \A k \in 1..shapes :
                  \E type \in PresentShapes :
                      LET count == Len(CellsOfType(type))
                          conn == content[12 + 3 * k]
                      IN  /\ IsLine80(content[12 + 3 * k - 2])
                          /\ content[12 + 3 * k - 2].text
                                = vtk_to_ensight[type].ensight_name
                          /\ IsInt32(content[12 + 3 * k - 1], count)
                          /\ conn.t = "i4"
                          /\ Len(conn.nums) = count * vtk_to_ensight[type].n_nodes
                          /\ conn.n = 4 * count * vtk_to_ensight[type].n_nodes
            /\ \A k1, k2 \in 1..shapes :
                  content[12 + 3 * k1 - 2].text = content[12 + 3 * k2 - 2].text
                      => k1 = k2
            /\ SumBytes(content)
                  = 7 * 80 + 2 * 4 + 3 * 4 * n
                      + 84 * shapes + 4 * SumBytes(
                            [k \in 1..Len(grid.cells) |->
                                [n |-> IF grid.cells[k].type \in DOMAIN vtk_to_ensight
                                       THEN vtk_to_ensight[grid.cells[k].type].n_nodes
                                       ELSE 0]])

C15_Witness ==
    /\ GeometryWritten /\ conv_binary
    /\ grid.n_points = 8
    /\ Cardinality(PresentShapes) = 2
    /\ DroppedCells = 0

\* the fixed header of a binary field file: three 80-byte lines and one int32
FieldHeaderBytes == 80 + 80 + 4 + 80

\* the point arrays whose field file was written by the last conversion
WrittenFields ==
    SelectSeq(grid.arrays, LAMBDA a : var_filename(a.name) \in written)

\* C16: the binary file of a vector field over n points has the size
\* header + 3*n*4 bytes and that of a scalar field header + n*4 bytes, with
\* the same fixed header for every field.
C16_BinaryFieldFileSize ==
    conv_binary =>
        \A k \in 1..Len(WrittenFields) :
            LET a == WrittenFields[k]
                content == files[var_filename(a.name)]
                n == grid.n_points
            IN  /\ a.comps = 3 => SumBytes(content) = FieldHeaderBytes + 3 * n * 4
                /\ a.comps = 1 => SumBytes(content) = FieldHeaderBytes + n * 4
                /\ a.comps \in {1, 3}
                /\ Len(content) >= 4
                /\ SumBytes(SubSeq(content, 1, 4)) = FieldHeaderBytes
                /\ \A j \in 1..Len(WrittenFields) :
                      SubSeq(files[var_filename(WrittenFields[j].name)], 1, 4)
                          = SubSeq(content, 1, 4)

C16_Witness ==
    /\ conv_binary /\ Converted
    /\ grid.n_points = 8
    /\ Len(WrittenFields) = 2
    /\ WrittenFields[1].comps = 1 /\ WrittenFields[2].comps = 3
    /\ SumBytes(files[var_filename(WrittenFields[1].name)]) = 276
    /\ SumBytes(files[var_filename(WrittenFields[2].name)]) = 340

\* the keywords of the shape blocks of a written geometry file, in file order
ShapeKeywords(content) ==
    LET names == {vtk_to_ensight[t].ensight_name : t \in DOMAIN vtk_to_ensight}
        words == SelectSeq(content, LAMBDA piece : piece.text \in names)
    IN  [k \in 1..Len(words) |-> words[k].text]

CompleteContents(file) ==
    LET steps == FilesToWrite(grid, TRUE) \o FilesToWrite(grid, FALSE)
    IN  {steps[k].content : k \in {i \in 1..Len(steps) : steps[i].file = file}}

\* C18: a filesystem error during a write is raised at once to the caller
\* (nothing is written after it, the conversion does not return), and the
\* file whose write failed is not left in part under its final name: that
\* name is absent or holds a complete file.
C18_NoPartialFileUnderFinalName ==
    /\ failed # <<>> => conv_pc = "raised" /\ ~conv_ret
    /\ conv_pc = "raised" =>
          /\ failed # <<>>
          /\ case_filename \notin written
          /\ \A k \in 1..Len(failed) :
                \/ failed[k] \notin DOMAIN files
                \/ files[failed[k]] \in CompleteContents(failed[k])

\* the part of C18 the code keeps: the error ends the conversion at once
C18_ErrorRaisedAtOnce ==
    /\ failed # <<>> => conv_pc = "raised" /\ ~conv_ret
    /\ conv_pc = "raised" =>
          /\ failed # <<>>
          /\ case_filename \notin written
          /\ \A k \in 1..Len(failed) : failed[k] \notin written

\* the blocks merged into self.clipped_data
FinalMergeInputs ==
    IF BlockwiseMergeInputs # {} THEN BlockwiseMergeInputs
    ELSE IF Len(path) > 0 /\ path[Len(path)] = "monolithic"
    THEN MonolithicMergeInputs ELSE {}

\* some block of the merge lacks a point field another block of it defines
FieldMissingIn(inputs) ==
    \E i, j \in inputs : point_arrays[i] # point_arrays[j]

\* C19: when blocks are merged (monolithic merge or block-wise accumulation)
\* and one block lacks a per-point field that another block defines, the
\* merge fails with an error; the field is never silently dropped from the
\* result.
C19_MissingFieldFailsMerge ==
    pc = "returned" =>
        /\ ~FieldMissingIn(MonolithicMergeInputs)
        /\ ~FieldMissingIn(BlockwiseMergeInputs)
        /\ \A i \in FinalMergeInputs :
              point_arrays[i] \subseteq ClippedPointArrays

\* what the code does: the result keeps the fields all merged blocks share
C19_CommonFieldsKept ==
    pc = "returned" =>
        /\ \A i \in FinalMergeInputs :
              ClippedPointArrays \subseteq point_arrays[i]
        /\ \A a \in ArrayNames :
              (FinalMergeInputs # {}
                  /\ \A i \in FinalMergeInputs : a \in point_arrays[i])
                      => a \in ClippedPointArrays

\* the lines of a piece of text: what stands between its line breaks
RECURSIVE SplitLines(_)
SplitLines(pieces) ==
    IF pieces = <<>> THEN <<>>
    ELSE LET breaks == {i \in 1..Len(pieces) : pieces[i].t = "nl"}
         IN  IF breaks = {} THEN <<pieces>>
             ELSE <<SubSeq(pieces, 1, SetMin(breaks) - 1)>>
                      \o SplitLines(SubSeq(pieces, SetMin(breaks) + 1, Len(pieces)))

\* the connectivity lines of every cell-shape block of the ASCII geometry
\* file on disk, with the block's keyword and cell count
AsciiConnectivityLines ==
    LET content == files[geo_filename]
        first == 18 + 6 * grid.n_points + 1
        starts == SelectSeq([i \in 1..Len(content) |-> i],
                      LAMBDA i : i >= first /\ content[i].t = "text")
        end(k) == IF k = Len(starts) THEN Len(content) ELSE starts[k + 1] - 1
    IN  [k \in 1..Len(starts) |->
            [keyword |-> content[starts[k]].text,
             count |-> content[starts[k] + 2].nums[1],
             lines |-> SplitLines(SubSeq(content, starts[k] + 4, end(k)))]]

Integers10(line) ==
    \A j \in 1..Len(line) : line[j].t = "int" /\ line[j].n = 10

ShapeNodes(keyword) ==
    LET type == CHOOSE t \in DOMAIN vtk_to_ensight :
                    vtk_to_ensight[t].ensight_name = keyword
    IN  vtk_to_ensight[type].n_nodes

\* C20 as stated: the connectivity of a cell-shape block of the ASCII
\* geometry file is written as 10-character-wide integers, 10 integers per
\* line (the last line of the block may be shorter), the line break being
\* applied per block and not after every cell.
C20_TenPerLinePerBlock ==
    (GeometryWritten /\ ~conv_binary) =>
        \A k \in 1..Len(AsciiConnectivityLines) :
            LET lines == AsciiConnectivityLines[k].lines
            IN  \A l \in 1..Len(lines) :
                    /\ Integers10(lines[l])
                    /\ Len(lines[l]) \in 1..10
                    /\ l < Len(lines) => Len(lines[l]) = 10

\* C20, amended: the connectivity of a cell-shape block of the ASCII geometry
\* file has one line per cell: the cell's node indices as 10-character-wide
\* integers (3 to 8 of them, as many as the shape has nodes), followed by a
\* line break; a block of `count` cells has `count` connectivity lines.
C20_OneCellPerLine ==
    (GeometryWritten /\ ~conv_binary) =>
        /\ files[geo_filename][Len(files[geo_filename])].t = "nl"
        /\ \A k \in 1..Len(AsciiConnectivityLines) :
              LET block == AsciiConnectivityLines[k]
              IN  /\ Len(block.lines) = block.count
                  /\ \A l \in 1..Len(block.lines) :
                        /\ Integers10(block.lines[l])
                        /\ Len(block.lines[l]) = ShapeNodes(block.keyword)
                        /\ Len(block.lines[l]) < 10

C20_Witness ==
    /\ GeometryWritten /\ ~conv_binary
    /\ Len(AsciiConnectivityLines) = 1
    /\ AsciiConnectivityLines[1].count = 2
    /\ Len(AsciiConnectivityLines[1].lines) = 2
    /\ Len(AsciiConnectivityLines[1].lines[1]) = 3

\* a block-wise clip run has ended
BlockwiseEnded ==
    pc = "returned" /\ Len(path) > 0 /\ path[Len(path)] = "blockwise"

\* C21: at the end of a block-wise clip run every input block is counted in
\* exactly one provenance category, so the counts the run has recorded sum
\* to the number of input blocks, whatever the per-block outcomes were
\* (empty blocks and blocks whose clip raises included).
C21_CountsSumToBlocks ==
    BlockwiseEnded => blocks_clipped + blocks_skipped = GetNumberOfBlocks(mesh)

\* what the two counters of the code do count: the blocks added to the
\* result, and the blocks with cells whose bounds miss the box
C21_CountersMeaning ==
    BlockwiseEnded =>
        /\ blocks_clipped = Len(appended_from)
        /\ blocks_clipped + blocks_skipped <= GetNumberOfBlocks(mesh)
        /\ stop_at = 0 =>
              blocks_skipped =
                  Cardinality({i \in 1..Len(mesh) :
                      /\ HasCells(mesh[i])
                      /\ ~_bounds_intersect(GetBounds(mesh[i].cells), bounds)})

\* the loop over the blocks is running or has ended
InBlockLoop == pc \in {"loop", "after_loop"} \/ BlockwiseEnded

MonolithicBoxReturned ==
    /\ op = "box" /\ pc = "returned" /\ path = <<"monolithic">>
    /\ ~InvalidBox(bounds)

\* C23: the monolithic pre-filter never changes the clip result: the cells
\* returned are those of the clip of the unfiltered merged mesh, and a cell
\* with a node inside the clip box is never removed by the pre-filter.
C23_PrefilterKeepsResult ==
    (MonolithicBoxReturned /\ "prefilter" \in work) =>
        /\ ret.data.cells = BoxClip(MonolithicInput(mesh, bounds, FALSE), bounds)
        /\ \A c \in Range(MonolithicInput(mesh, bounds, FALSE)) :
              (\E p \in c.nodes : BoxSign(bounds, p) < 0) =>
                  c \in Range(MonolithicInput(mesh, bounds, TRUE))

\* what holds: without the pre-filter the result is the clip of the merged
\* mesh, and the pre-filter keeps the cells that lie within the enlarged box
C23_PrefilterKeepsCellsWithin ==
    MonolithicBoxReturned =>
        /\ "prefilter" \notin work =>
              ret.data.cells = BoxClip(MonolithicInput(mesh, bounds, FALSE), bounds)
        /\ \A c \in Range(MonolithicInput(mesh, bounds, FALSE)) :
              (\A p \in c.nodes :
                    FunctionSign(BoxFn(ExtendedBounds(bounds), MarginDen), p) < 0)
                  => c \in Range(MonolithicInput(mesh, bounds, TRUE))

\* C24: in the block-wise path, when the clip of block k raises a memory
\* error (the code handles MemoryError and any other exception of a block's
\* clip alike, `caught` holds the blocks concerned), block k and all blocks
\* after it stay unprocessed: the result holds only blocks before k and no
\* clip of a later block is started.
C24_MemoryErrorEndsRun ==
    (InBlockLoop /\ caught # {}) =>
        LET k == SetMin(caught)
        IN  /\ \A j \in Range(appended_from) : j < k
            /\ \A j \in clip_started : j <= k

\* what the code does: the block whose clip raised is left out of the
\* result, and the loop goes on with the next block
C24_RaisingBlockLeftOut ==
    InBlockLoop =>
        /\ caught \subseteq clip_started
        /\ \A j \in caught : j \notin Range(appended_from)
        /\ (pc = "loop" /\ caught # {}) => block_idx >= SetMax(caught)

\* a box clip of one of the ParaView scripts has run
ScriptBoxClip == pv.clipped /\ pv.ClipType = "Box"

\* the engine's monolithic box clip has returned, without pre-filter
EngineBoxClip == MonolithicBoxReturned /\ "prefilter" \notin work

UnitTable ==
    <<<<pressure, "Pa", "M/LTT">>, <<velocity, "m s^-1", "L/T">>,
      <<turb_kinetic_energy, "m^2 s^-2", "LL/TT">>,
      <<turb_diss, "m^2 s^-3", "LL/TTT">>,
      <<temperature, "K", "Theta">>, <<density, "kg m^-3", "M/LLL">>>>

\* the rows whose keyword occurs in the lower-cased name
Occurring(name) ==
    {k \in 1..Len(UnitTable) :
        \E i \in 1..Len(name) :
            /\ i + Len(UnitTable[k][1]) - 1 <= Len(name)
            /\ \A j \in 1..Len(UnitTable[k][1]) :
                  LowerChar(name[i + j - 1]) = UnitTable[k][1][j]}

\* C26: the unit label and dimension string written for a field name are
\* those of the first keyword, in the order pressure, velocity,
\* turb_kinetic_energy, turb_diss, temperature, density, that occurs in the
\* lower-cased name, both empty when none occurs; the CLI and the GUI
\* implementation give the same pair for every name.
C26_UnitsByFirstKeyword ==
    LET rows == Occurring(xml_array_name)
        expected == IF rows = {} THEN <<"", "">>
                    ELSE <<UnitTable[SetMin(rows)][2], UnitTable[SetMin(rows)][3]>>
    IN  /\ xml_cli # <<>> => xml_cli = expected
        /\ xml_gui # <<>> => xml_gui = expected
        /\ (xml_cli # <<>> /\ xml_gui # <<>>) => xml_cli = xml_gui

C26_Witness ==
    /\ xml_cli = <<"Pa", "M/LTT">> /\ xml_gui = xml_cli
    /\ In(velocity, lower(xml_array_name))
    /\ ~In(pressure, xml_array_name)

\* C27: write_ensight called while no clip operation has returned a result
\* raises ValueError before it creates any directory or file: the output
\* location is left untouched.
C27_WriteWithoutClipRaises ==
    /\ (write_ret # "none" /\ ~ever_returned) =>
          write_ret = "ValueError" /\ output_path = Untouched
    /\ write_ret = "ValueError" =>
          /\ output_path = Untouched
          /\ clipped_data.is_none
    /\ write_ret = "none" => output_path = Untouched

C27_Witness ==
    /\ write_ret = "ValueError"
    /\ calls = 2
    /\ output_path = Untouched

\* C28: a clip operation that raises leaves clipped_data exactly as it was
\* before the call; clipped_data is set only if some clip operation has
\* returned normally; so what write_ensight writes is the output of a clip
\* that returned, never that of a failed one.
C28_FailedClipKeepsClippedData ==
    /\ pc = "raised" => clipped_data = data_before /\ ret.kind # "value"
    /\ pc \in {"loop", "after_loop"} => clipped_data = data_before
    /\ ~clipped_data.is_none => (ever_returned \/ pc = "returned")
    /\ pc = "returned" => clipped_data = ret.data /\ ~clipped_data.is_none
    /\ pc = "idle" => clipped_data = data_before
    /\ write_ret = "returned" =>
          /\ ever_returned
          /\ output_path.cells = clipped_data.cells
          /\ output_path.cells = data_before.cells

C28_Witness ==
    /\ pc = "raised"
    /\ calls > 0
    /\ ~data_before.is_none /\ data_before.cells # <<>>
    /\ clipped_data = data_before

\* the input file of the last conversion was missing
InputMissing == conv_pc = "returned" /\ ~conv_ret

\* geometry, the fields of one or three components in the order the grid
\* declares them, manifest
WriteOrder ==
    LET fields == SelectSeq(grid.arrays, LAMBDA a : a.comps \in {1, 3})
    IN  <<geo_filename>>
        \o [k \in 1..Len(fields) |-> var_filename(fields[k].name)]
        \o <<case_filename>>

\* C29: a conversion writes the geometry, then the fields in declaration
\* order, then the manifest, so the manifest is written only after all the
\* others; when a geometry or field write raises, no manifest is written in
\* that run; when the input file is missing nothing is written and False is
\* returned.
C29_ManifestWrittenLast ==
    /\ (conv_pc # "idle" /\ ~InputMissing) =>
          \E n \in 0..Len(WriteOrder) :
              /\ written = {WriteOrder[k] : k \in 1..n}
              /\ conv_pc = "returned" => n = Len(WriteOrder) /\ conv_ret
              /\ conv_pc = "raised" =>
                    /\ n < Len(WriteOrder)
                    /\ failed = <<WriteOrder[n + 1]>>
                    /\ ~conv_ret
    /\ (conv_pc = "raised" /\ failed # <<case_filename>>) =>
          /\ case_filename \notin written
          /\ runs = 1 => case_filename \notin DOMAIN files
    /\ InputMissing =>
          /\ written = {}
          /\ failed = <<>>
          /\ Len(geo_written) < runs
          /\ runs = 1 => files = <<>>

C29_Witness ==
    /\ conv_pc = "raised"
    /\ Len(WriteOrder) >= 4
    /\ failed = <<WriteOrder[3]>>
    /\ written = {WriteOrder[1], WriteOrder[2]}
    /\ case_filename \notin DOMAIN files

FertigLines == SelectSeq(printed, LAMBDA l : l.kind = "Fertig")

\* what C30 says of every state
C30_MonitorSafe ==
    /\ after_stop <= 1
    /\ Len(FertigLines) = (IF call_pc = "stopped" THEN 1 ELSE 0)
    /\ \A k \in 1..Len(printed) :
          /\ printed[k].divisor # 0
          /\ printed[k].kind = "progress" =>
                (printed[k].divisor # -1 <=> EtaShown(printed[k].percent))
    /\ thread = "ended" => ~running

\* C30: once stop() has set running to False the monitor thread prints at
\* most one more progress line and then ends; the final line is printed
\* exactly once per start()/stop() pair and a second stop() prints nothing;
\* the ETA is never computed by dividing by a progress of zero, whatever the
\* interleaving of update_progress with the monitor loop.
C30_MonitorStopsOnce ==
    /\ []C30_MonitorSafe
    /\ (call_pc \in {"join", "stopped"}) ~> (thread = "ended")

C30_Witness ==
    /\ stops = 2
    /\ thread = "ended"
    /\ after_stop = 1
    /\ Len(FertigLines) = 1
    /\ \E k \in 1..Len(printed) : printed[k].divisor > 1
    /\ \E k \in 1..Len(printed) :
          printed[k].kind = "progress" /\ printed[k].divisor = -1

====
